---- MODULE Spec2Model ----
(***************************************************************************)
(* A model of the RPC framework: the client call multiplexer               *)
(* (src/client.go and its variant src/unnamed/part_004), the server        *)
(* request loop (src/server.go and its variant src/server/server.go) and   *)
(* the service registry (Register / findService).                          *)
(*                                                                         *)
(* The specifications share the variables: SpecClient (and FairSpecClient, *)
(* src/client.go under a fair scheduler), SpecServer and SpecRegistry.     *)
(* Each one moves its own part of the state and keeps the other parts      *)
(* fixed.                                                                  *)
(***************************************************************************)
EXTENDS Integers, Sequences, FiniteSets, TLC

\* ------------------------------------------------------------------ bounds
MaxCalls == 2       \* calls submitted on the one client connection
MaxParams == 3      \* parameters, besides the receiver, of a declared method
MaxInv == 2         \* invocations of service.Call
MaxTimeout == 3     \* largest opt.ConnectTimeout, in ticks
MaxDoneCalls == 3   \* calls submitted through Go
MaxSharedCap == 2   \* capacity of a done channel supplied by the caller
MaxWrites == 3      \* calls of Codec.Write on one connection
MaxLockTasks == 3   \* tasks that run operations of one client at once

\* --------------------------------------------------------------- variables
VARIABLES
  \* ---- client ----
  clientVariant,  \* which client source is running
  codecType,      \* the codec negotiated for the client connection
  seq,            \* Client.seq
  pending,        \* Client.pending: Seq -> call
  closing,        \* Client.closing
  shutdown,       \* Client.shutdown
  sending,        \* holder of Client.sending
  call,           \* the Call structs: Seq, Error, Reply
  pc,             \* position of each call's submitting task
  signals,        \* number of executions of call.done() per call
  inbound,        \* reply frames on the connection not yet decoded
  delivered,      \* Seqs of the requests the peer received in full and can still answer
  torn,           \* Seqs of the requests whose header alone was flushed, still answerable
  connClosed,     \* the connection is closed (by the client, its codec, the peer or the transport)
  rpc,            \* position of the reader task (Client.receive)
  rcall,          \* the call the reader removed from pending
  rmode,          \* what the reader does with the body
  lastClose,      \* what the last Close() returned
  codecCloses,    \* number of cc.Close() executed by Close()
  \* ---- registry ----
  serviceMap,     \* Server.serviceMap: service name -> service
  regpc,          \* position of each task calling Server.Register
  regSvc,         \* the service newService built for the task
  regResult,      \* what Register returned to the task
  regOrder,       \* the tasks in the order of their LoadOrStore
  found,          \* the last findService call: its argument and result
  \* ---- server connection ----
  serverVariant,  \* which server source is running
  sCodec,         \* the codec of the server connection
  reqIn,          \* request frames on the connection not yet decoded
  sentReqs,       \* the requests the client wrote, in order
  sEOF,           \* the client closed the connection
  spc,            \* position of the ServeCodec loop
  cur,            \* the request the loop is reading or answering
  reqLog,         \* the requests whose header the loop has read
  ws,             \* position of each task inside sendResponse
  out,            \* reply frames written to the connection
  wg,             \* the WaitGroup counter
  sConnClosed,    \* the server's codec closed the connection
  \* ---- service ----
  svcRcvr,        \* the methods of the receiver handed to newService
  svcMethod,      \* service.method: method name -> methodType
  numCalls,       \* methodType.numCalls of each method of the table
  svcBuilt,       \* newService has returned
  inv,            \* the invocations of service.call: position, method, result
  \* ---- dialTimeout ----
  dialVariant,    \* which dialTimeout runs: src/client.go or part_004
  nopts,          \* number of options handed to Dial
  connectTimeout, \* opt.ConnectTimeout, in ticks
  dpc,            \* position of the task inside dialTimeout
  dconn,          \* the connection of net.DialTimeout: none, open, closed
  fpc,            \* position of the goroutine that runs f(conn, opt)
  fresult,        \* what f returned
  elapsed,        \* ticks since time.After was called
  dret,           \* what dialTimeout returned
  \* ---- Server.ServeConn ----
  connVariant,    \* which ServeConn runs
  registered,     \* the keys of codec.NewCodecFuncMap
  optDecodes,     \* the head of the connection decodes into an Option
  optMagic,       \* its MagicNumber
  optCodec,       \* its CodecType
  hpc,            \* position of the task inside ServeConn
  hsLog,          \* what ServeConn logged
  hsReqs,         \* requests read from the connection
  hsClosed,       \* conn.Close() has run
  \* ---- the client's two mutexes ----
  lop,            \* the operation each task runs
  lpos,           \* its position in the operation's lock steps
  sendingHeldBy,  \* the task that holds client.sending (0: free)
  muHeldBy,       \* the task that holds client.mu (0: free)
  \* ---- Codec.Write ----
  wcodec,         \* the codec: gob or json
  wpc,            \* position of the task inside Write
  wn,             \* calls of Write so far
  wbuf,           \* frames encoded into the bufio.Writer, not yet flushed
  wire,           \* frames written to the connection
  wclosed,        \* the connection has been closed
  werr,           \* the named result err of the running Write
  wsteps,         \* what the running (or last) Write did, in order
  \* ---- the Done channels of the calls submitted through Go ----
  chanOf,         \* per call: its own channel or the channel the caller shares
  sharedCap,      \* capacity of the shared channel
  sharedBuf,      \* the calls buffered in the shared channel
  ownBuf,         \* per call: the number of values in its own channel
  dst,            \* per call: new, pending, indone (inside call.done()), signalled
  dby,            \* per call: the operation that called call.done()
  dreader,        \* position of the reader task
  dlock,          \* holder of the sending mutex
  dshutdown       \* Client.shutdown

clientVars == <<clientVariant, codecType, seq, pending, closing, shutdown,
                sending, call, pc, signals, inbound, delivered, torn,
                connClosed, rpc, rcall, rmode,
                lastClose, codecCloses>>

regVars == <<serviceMap, regpc, regSvc, regResult, regOrder, found>>

serverVars == <<serverVariant, sCodec, reqIn, sentReqs, sEOF, spc, cur, reqLog,
                ws, out, wg, sConnClosed>>

svcVars == <<svcRcvr, svcMethod, numCalls, svcBuilt, inv>>

connVars == <<connVariant, registered, optDecodes, optMagic, optCodec, hpc,
              hsLog, hsReqs, hsClosed>>

lockVars == <<lop, lpos, sendingHeldBy, muHeldBy>>

doneVars == <<chanOf, sharedCap, sharedBuf, ownBuf, dst, dby, dreader, dlock, dshutdown>>

codecVars == <<wcodec, wpc, wn, wbuf, wire, wclosed, werr, wsteps>>

dialVars == <<dialVariant, nopts, connectTimeout, dpc, dconn, fpc, fresult,
              elapsed, dret>>

vars == <<clientVars, regVars, serverVars, svcVars, dialVars, connVars, lockVars, codecVars, doneVars>>

\* What each part leaves alone.
notClientVars == <<regVars, serverVars, svcVars, dialVars, connVars, lockVars, codecVars, doneVars>>
notRegVars == <<clientVars, serverVars, svcVars, dialVars, connVars, lockVars, codecVars, doneVars>>
notServerVars == <<clientVars, regVars, svcVars, dialVars, connVars, lockVars, codecVars, doneVars>>
notSvcVars == <<clientVars, regVars, serverVars, dialVars, connVars, lockVars, codecVars, doneVars>>
notDoneVars == <<clientVars, regVars, serverVars, svcVars, dialVars, connVars, lockVars, codecVars>>
notCodecVars == <<clientVars, regVars, serverVars, svcVars, dialVars, connVars, lockVars, doneVars>>
notLockVars == <<clientVars, regVars, serverVars, svcVars, dialVars, connVars, codecVars, doneVars>>
notConnVars == <<clientVars, regVars, serverVars, svcVars, dialVars, lockVars, codecVars, doneVars>>
notDialVars == <<clientVars, regVars, serverVars, svcVars, connVars, lockVars, codecVars, doneVars>>

\* ---------------------------------------------------------------- client
Calls == 1..MaxCalls
NoCall == 0
NoTask == 0

ClientVariants == {"client.go", "part_004"}
CodecTypes == {"gob", "json"}

NilError == "nil"
ErrShutdown == "connection is shut down"
ReadErr == "read error"
WriteErr == "write error"
BodyErr == "reading body"
ServerErr == "server error"

Range(f) == {f[x] : x \in DOMAIN f}

HdrFrame(s, e) == [t |-> "hdr", seq |-> s, err |-> e]
BodyFrame(kind, s) == [t |-> kind, seq |-> s, err |-> ""]

\* Decoding a frame into a fresh Header value.
DecodesAsHeader(f) == f.t \in {"hdr", "empty"}
HeaderOf(f) == IF f.t = "hdr" THEN [seq |-> f.seq, err |-> f.err]
               ELSE [seq |-> 0, err |-> ""]

\* Decoding a frame with a nil destination: gob discards the value, the JSON
\* decoder consumes the value and reports an invalid destination.
DiscardOK(f) == codecType = "gob"

\* Decoding a frame into call.Reply.
DecodesAsReply(f) == f.t = "val"

\* The client part at rest (the state of a client just constructed).
ClientIdle ==
  /\ clientVariant = "client.go"
  /\ codecType = "gob"
  /\ seq = 1
  /\ pending = [s \in {} |-> NoCall]
  /\ closing = FALSE
  /\ shutdown = FALSE
  /\ sending = NoTask
  /\ call = [c \in Calls |-> [Seq |-> 0, Error |-> NilError, Reply |-> 0]]
  /\ pc = [c \in Calls |-> "new"]
  /\ signals = [c \in Calls |-> 0]
  /\ inbound = << >>
  /\ delivered = {}
  /\ torn = {}
  /\ connClosed = FALSE
  /\ rpc = "readHeader"
  /\ rcall = NoCall
  /\ rmode = "none"
  /\ lastClose = "none"
  /\ codecCloses = 0

\* ---------------------------------------------------------------- service
\* A reflect.Type as far as registerMethods looks at it: Name(), PkgPath()
\* and, for a pointer, the name of the type it points to.
Upper == {"A", "F", "S"}
TypeInt == [name |-> <<"i", "n", "t">>, pkg |-> "", elem |-> << >>]
TypeArgs == [name |-> <<"A", "r", "g", "s">>, pkg |-> "main", elem |-> << >>]
TypeHidden == [name |-> <<"a", "r", "g", "s">>, pkg |-> "main", elem |-> << >>]
TypePtrInt == [name |-> << >>, pkg |-> "", elem |-> <<"i", "n", "t">>]
TypePtrHidden == [name |-> << >>, pkg |-> "", elem |-> <<"a", "r", "g", "s">>]
TypeError == [name |-> <<"e", "r", "r", "o", "r">>, pkg |-> "", elem |-> << >>]
TypeFoo == [name |-> <<"F", "o", "o">>, pkg |-> "main", elem |-> << >>]
ParamTypes == {TypeInt, TypeArgs, TypeHidden, TypePtrInt, TypePtrHidden}

\* go/ast.IsExported: the name begins with an upper-case letter.
IsExported(name) == name # << >> /\ name[1] \in Upper

isExportedOrBuiltinType(t) == IsExported(t.name) \/ t.pkg = ""

\* The methods a receiver may declare.  In(0) of a method's type is the
\* receiver; the result lists are the four shapes the filter tells apart.
NameSum == <<"S", "u", "m">>
NameLowerSum == <<"s", "u", "m">>
NameAdd == <<"A", "d", "d">>
ParamLists == UNION {[1..n -> ParamTypes] : n \in 0..MaxParams}
OutLists == {<< >>, <<TypeError>>, <<TypeInt>>, <<TypeError, TypeError>>}
MethodDecl(name, params, outs) == [name |-> name, in |-> <<TypeFoo>> \o params, out |-> outs]
\* Foo of service_test.go, and a second method the filter accepts.
FooSum == MethodDecl(NameSum, <<TypeArgs, TypePtrInt>>, <<TypeError>>)
FooLowerSum == MethodDecl(NameLowerSum, <<TypeArgs, TypePtrInt>>, <<TypeError>>)
FooAdd == MethodDecl(NameAdd, <<TypeArgs, TypePtrInt>>, <<TypeError>>)
Foo == {FooSum, FooLowerSum}
Receivers ==
  {Foo} \cup
  {{FooAdd, MethodDecl(n, ps, os)} :
     n \in {NameSum, NameLowerSum}, ps \in ParamLists, os \in OutLists}

\* reflect.Type.NumMethod / Method(i): the exported methods of the type.
TypeMethods(rcvr) == {m \in rcvr : IsExported(m.name)}

\* service.registerMethods: the methods the loop does not skip.
registerMethodsKeeps(m) ==
  /\ ~(Len(m.in) # 3 \/ Len(m.out) # 1)
  /\ ~(m.out[1] # TypeError)
  /\ ~(~isExportedOrBuiltinType(m.in[2]) \/ ~isExportedOrBuiltinType(m.in[3]))

registerMethodsRange_AllMethods(rcvr) == rcvr
registerMethodsRange(rcvr) == TypeMethods(rcvr)

registerMethods(rcvr) ==
  LET kept == {m \in registerMethodsRange(rcvr) : registerMethodsKeeps(m)}
  IN  [n \in {m.name : m \in kept} |->
         LET m == CHOOSE x \in kept : x.name = n
         IN  [ArgType |-> m.in[2], ReplyType |-> m.in[3]]]

\* reflect.Type.Kind() == reflect.Ptr, and Type.Elem(), which panics on a
\* type that is not an array, a channel, a map, a pointer or a slice.
IsPointer(t) == t.elem # << >>
ElemPanics(t) == ~IsPointer(t)

\* methodType.newReplyv: reflect.New(mt.ReplyType.Elem()).
newReplyv(mt) ==
  IF ElemPanics(mt.ReplyType)
    THEN [panic |-> TRUE, new |-> << >>]
    ELSE [panic |-> FALSE, new |-> mt.ReplyType.elem]

InvTasks == 1..MaxInv
NoMethodName == << >>

ServiceIdle ==
  /\ svcRcvr = {}
  /\ svcMethod = [n \in {} |-> 0]
  /\ numCalls = [n \in {} |-> 0]
  /\ svcBuilt = FALSE
  /\ inv = [t \in InvTasks |-> [pc |-> "idle", m |-> NoMethodName, res |-> "none"]]

\* ------------------------------------------------------------ dialTimeout
NoResult == [client |-> FALSE, err |-> "none"]
ErrOptions == "number of options is more than 1"
ErrDial == "dial error"
ErrCodecType == "invalid codec type"
ErrEncodeOption == "options error"
ErrConnectTimeout == "rpc client: connect timeout"

DialIdle ==
  /\ dialVariant = "client.go"
  /\ nopts = 1
  /\ connectTimeout = 0
  /\ dpc = "idle"
  /\ dconn = "none"
  /\ fpc = "none"
  /\ fresult = NoResult
  /\ elapsed = 0
  /\ dret = NoResult

\* -------------------------------------------------------- Server.ServeConn
ConnVariants == {"server.go", "server/server.go", "part_003"}
MagicNumber == 3927900          \* 0x3bef5c
GobType == "application/gob"
JsonType == "application/json"
\* The two init functions of package codec: one registers gob and JSON, the
\* other gob alone.
CodecRegistrations == {{GobType, JsonType}, {GobType}}
OptionCodecTypes == {GobType, JsonType, "application/xml"}

ServeConnIdle ==
  /\ connVariant = "server.go"
  /\ registered = {GobType}
  /\ optDecodes = TRUE
  /\ optMagic = MagicNumber
  /\ optCodec = GobType
  /\ hpc = "idle"
  /\ hsLog = "none"
  /\ hsReqs = 0
  /\ hsClosed = FALSE

\* ------------------------------------------------- the client's mutexes
LockTasks == 1..MaxLockTasks
Free == 0
Lock(m) == <<"Lock", m>>
Unlock(m) == <<"Unlock", m>>

\* The order in which terminateCalls takes its two locks.
terminateCallsLocks_MuFirst == <<Lock("mu"), Lock("sending")>>
terminateCallsLocks == <<Lock("sending"), Lock("mu")>>

\* The Lock and Unlock calls of each operation, in program order (deferred
\* unlocks run last, in reverse order of their defer statements).
LockSteps(op) ==
  CASE op = "send" ->
         \* registerCall inside sending; Write succeeds
         <<Lock("sending"), Lock("mu"), Unlock("mu"), Unlock("sending")>>
    [] op = "sendWriteError" ->
         \* registerCall, a failed Write, then removeCall
         <<Lock("sending"), Lock("mu"), Unlock("mu"),
           Lock("mu"), Unlock("mu"), Unlock("sending")>>
    [] op = "terminateCalls" ->
         terminateCallsLocks \o <<Unlock("mu"), Unlock("sending")>>
    [] op = "Close" -> <<Lock("mu"), Unlock("mu")>>
    [] op = "IsAvailable" -> <<Lock("mu"), Unlock("mu")>>
    [] op = "removeCall" ->
         \* from receive and from the ctx.Done() branch of Call
         <<Lock("mu"), Unlock("mu")>>
LockOps == {"send", "sendWriteError", "terminateCalls", "Close", "IsAvailable", "removeCall"}

LocksIdle ==
  /\ lop = [t \in LockTasks |-> "none"]
  /\ lpos = [t \in LockTasks |-> 0]
  /\ sendingHeldBy = Free
  /\ muHeldBy = Free

\* ------------------------------------------------------------ Done channels
DoneCalls == 1..MaxDoneCalls
\* Client.Go: done = make(chan *Call, 10) when the caller passes nil.
DefaultDoneCap == 10

DoneIdle ==
  /\ chanOf = [c \in DoneCalls |-> "own"]
  /\ sharedCap = 1
  /\ sharedBuf = << >>
  /\ ownBuf = [c \in DoneCalls |-> 0]
  /\ dst = [c \in DoneCalls |-> "new"]
  /\ dby = [c \in DoneCalls |-> "none"]
  /\ dreader = "loop"
  /\ dlock = "free"
  /\ dshutdown = FALSE

\* ------------------------------------------------------------ Codec.Write
CodecIdle ==
  /\ wcodec = "gob"
  /\ wpc = "idle"
  /\ wn = 0
  /\ wbuf = << >>
  /\ wire = << >>
  /\ wclosed = FALSE
  /\ werr = NilError
  /\ wsteps = << >>

\* ------------------------------------------------------- service registry
MaxRegs == 2        \* tasks calling Server.Register
MaxLen == 5         \* length of a ServiceMethod string

RegTasks == 1..MaxRegs
Chars == {"F", "S", "."}
Dot == "."

\* The receiver types a task may register, each with the one eligible method S.
ServiceNames == {<<"F">>, <<"S">>}
MethodsOf(name) == {<<"S">>}

NoService == [name |-> << >>, rcvr |-> 0, method |-> {}]
NoMethod == << >>

\* newService(rcvr): the receiver's type name and its method table; rcvr
\* identifies the receiver value the caller passed.
newService(name, rcvr) == [name |-> name, rcvr |-> rcvr, method |-> MethodsOf(name)]

\* serviceMap.LoadOrStore(s.name, s): dup, and the map afterwards.
LoadOrStoreDup_Never(name) == FALSE
LoadOrStoreDup(name) == name \in DOMAIN serviceMap
LoadOrStoreMap(s) ==
  IF LoadOrStoreDup(s.name) THEN serviceMap
  ELSE [n \in DOMAIN serviceMap \cup {s.name} |-> IF n = s.name THEN s ELSE serviceMap[n]]

AlreadyDefined == "rpc: service already defined"
IllFormed == "rpc server: service/method request ill-formed"
CantFindService == "rpc server: can't find service"
CantFindMethod == "rpc server: can't find method"

\* strings.LastIndex(serviceMethod, "."), 0-based, -1 when there is no dot.
LastIndexDot_First(sm) ==
  LET I == {i \in 1..Len(sm) : sm[i] = Dot} IN
    IF I = {} THEN -1 ELSE (CHOOSE i \in I : \A j \in I : i <= j) - 1
LastIndexDot(sm) ==
  LET I == {i \in 1..Len(sm) : sm[i] = Dot} IN
    IF I = {} THEN -1 ELSE (CHOOSE i \in I : \A j \in I : i >= j) - 1

\* Server.findService: (svc, mtype, err); text is what the error message ends with.
findService(sm) ==
  LET dot == LastIndexDot(sm)
      serviceName == SubSeq(sm, 1, dot)
      methodName == SubSeq(sm, dot + 2, Len(sm))
  IN IF dot < 0
       THEN [svc |-> NoService, mtype |-> NoMethod, err |-> IllFormed, text |-> sm]
     ELSE IF serviceName \notin DOMAIN serviceMap
       THEN [svc |-> NoService, mtype |-> NoMethod, err |-> CantFindService, text |-> serviceName]
     ELSE IF methodName \notin serviceMap[serviceName].method
       THEN [svc |-> serviceMap[serviceName], mtype |-> NoMethod, err |-> CantFindMethod, text |-> methodName]
     ELSE [svc |-> serviceMap[serviceName], mtype |-> methodName, err |-> NilError, text |-> << >>]

\* ------------------------------------------------------ server connection
MaxReqs == 3        \* requests the client writes on the one connection

ServerVariants == {"server.go", "server/server.go"}
LoopTask == 0       \* the ServeCodec loop as a caller of sendResponse
MaxLog == 2 * MaxReqs
Tasks == 0..MaxLog  \* the loop and one handler per request read

\* The server under test has registered Foo, whose method is Sum.
ServingMap == [n \in {<<"F">>} |-> newService(n, 1)]
ServiceMethods == {<<"F", ".", "S">>, <<"F", ".", "F">>, <<"S", ".", "S">>, <<"F", "S">>}

ReqHdrFrame(s, sm) == [t |-> "hdr", seq |-> s, sm |-> sm, ok |-> TRUE]
ReqArgsFrame(s, ok) == [t |-> "args", seq |-> s, sm |-> << >>, ok |-> ok]
RepHdrFrame(rid, s, e) == [t |-> "hdr", rid |-> rid, seq |-> s, err |-> e]
RepBodyFrame(rid, s) == [t |-> "body", rid |-> rid, seq |-> s, err |-> ""]

\* cc.ReadHeader(&h): a header frame decodes; under JSON an argument object
\* decodes too, into the zero Header (unknown fields are ignored).
ReadHeaderOK(f) == f.t = "hdr" \/ (sCodec = "json" /\ f.t = "args" /\ f.ok)
ReadHeaderOf(f) == IF f.t = "hdr" THEN [seq |-> f.seq, sm |-> f.sm]
                   ELSE [seq |-> 0, sm |-> << >>]

\* cc.ReadBody(argvi): an argument frame of the right type decodes; under
\* JSON a header object decodes too, into the zero argument.
ReadBodyOK(f) == (f.t = "args" /\ f.ok) \/ (sCodec = "json" /\ f.t = "hdr")

ServerIdle ==
  /\ serverVariant = "server.go"
  /\ sCodec = "gob"
  /\ reqIn = << >>
  /\ sentReqs = << >>
  /\ sEOF = FALSE
  /\ spc = "readHeader"
  /\ cur = 0
  /\ reqLog = << >>
  /\ ws = [t \in Tasks |-> "idle"]
  /\ out = << >>
  /\ wg = 0
  /\ sConnClosed = FALSE


NotCalled == [sm |-> << >>, map |-> [n \in {} |-> NoService],
              res |-> [svc |-> NoService, mtype |-> NoMethod, err |-> "not called", text |-> << >>]]

RegistryIdle ==
  /\ serviceMap = [n \in {} |-> NoService]
  /\ regpc = [t \in RegTasks |-> "idle"]
  /\ regSvc = [t \in RegTasks |-> NoService]
  /\ regResult = [t \in RegTasks |-> "none"]
  /\ regOrder = << >>
  /\ found = NotCalled

InitRegistry ==
  /\ RegistryIdle
  /\ ServiceIdle
  /\ ClientIdle
  /\ ServerIdle
  /\ DialIdle
  /\ ServeConnIdle
  /\ LocksIdle
  /\ CodecIdle
  /\ DoneIdle

\* Server.Register, first line: s := newService(rcvr).
RegisterNew(t, name) ==
  /\ regpc[t] = "idle"
  /\ regSvc' = [regSvc EXCEPT ![t] = newService(name, t)]
  /\ regpc' = [regpc EXCEPT ![t] = "built"]
  /\ UNCHANGED <<serviceMap, regResult, regOrder, found>>
  /\ UNCHANGED notRegVars

\* Server.Register, the LoadOrStore and the return.
RegisterStore(t) ==
  /\ regpc[t] = "built"
  /\ serviceMap' = LoadOrStoreMap(regSvc[t])
  /\ regResult' = [regResult EXCEPT ![t] =
                     IF LoadOrStoreDup(regSvc[t].name) THEN AlreadyDefined ELSE NilError]
  /\ regOrder' = Append(regOrder, t)
  /\ regpc' = [regpc EXCEPT ![t] = "done"]
  /\ UNCHANGED <<regSvc, found>>
  /\ UNCHANGED notRegVars

\* A call of findService on the registry as it stands; found keeps the
\* argument, the map the call read and the result until the caller is done.
FindService(sm) ==
  /\ found = NotCalled
  /\ found' = [sm |-> sm, map |-> serviceMap, res |-> findService(sm)]
  /\ UNCHANGED <<serviceMap, regpc, regSvc, regResult, regOrder>>
  /\ UNCHANGED notRegVars

FindReturn ==
  /\ found # NotCalled
  /\ found' = NotCalled
  /\ UNCHANGED <<serviceMap, regpc, regSvc, regResult, regOrder>>
  /\ UNCHANGED notRegVars

Strings(n) == UNION {[1..k -> Chars] : k \in 0..n}

NextRegistry ==
  \/ \E t \in RegTasks, name \in ServiceNames : RegisterNew(t, name)
  \/ \E t \in RegTasks : RegisterStore(t)
  \/ \E sm \in Strings(MaxLen) : FindService(sm)
  \/ FindReturn

SpecRegistry == InitRegistry /\ [][NextRegistry]_vars

\* newClientCodec: seq starts with 1, 0 means invalid call.
InvalidSeq == 0
newClientCodecSeq_Invalid == InvalidSeq
newClientCodecSeq == 1

InitClient ==
  /\ clientVariant \in ClientVariants
  /\ codecType \in CodecTypes
  /\ seq = newClientCodecSeq
  /\ pending = [s \in {} |-> NoCall]
  /\ closing = FALSE
  /\ shutdown = FALSE
  /\ sending = NoTask
  /\ call = [c \in Calls |-> [Seq |-> 0, Error |-> NilError, Reply |-> 0]]
  /\ pc = [c \in Calls |-> "new"]
  /\ signals = [c \in Calls |-> 0]
  /\ inbound = << >>
  /\ delivered = {}
  /\ torn = {}
  /\ connClosed = FALSE
  /\ rpc = "readHeader"
  /\ rcall = NoCall
  /\ rmode = "none"
  /\ lastClose = "none"
  /\ codecCloses = 0
  /\ RegistryIdle
  /\ ServerIdle
  /\ ServiceIdle
  /\ DialIdle
  /\ ServeConnIdle
  /\ LocksIdle
  /\ CodecIdle
  /\ DoneIdle

\* ---- Client.registerCall (under mu) ----
registerCallRejects_Never == FALSE
registerCallRejects == closing \/ shutdown
registerCallNextSeq_NoIncrement == seq
registerCallNextSeq == seq + 1
registerCallPending(c) == [s \in DOMAIN pending \cup {seq} |-> IF s = seq THEN c ELSE pending[s]]

\* ---- Client.removeCall (under mu) ----
LowestKey == CHOOSE k \in DOMAIN pending : \A j \in DOMAIN pending : k <= j
removeCall_AnyPending(s) == IF DOMAIN pending # {} THEN pending[LowestKey] ELSE NoCall
removeCall(s) == IF s \in DOMAIN pending THEN pending[s] ELSE NoCall
removeCallRest_Keep(s) == pending
removeCallRest(s) == [k \in DOMAIN pending \ {s} |-> pending[k]]

\* ---- Client.terminateCalls: the calls it fails and signals ----
terminateCallsTargets_None == {}
terminateCallsTargets_Registered == {c \in Calls : call[c].Seq # 0}
terminateCallsTargets == Range(pending)
\* ... and the error it gives them: call.Error = err
terminateCallsError_Nil(err) == NilError
terminateCallsError(err) == err

\* ---- Client.Close: the test under mu ----
CloseRejects_Never == FALSE
CloseRejects == closing

\* call.Error := e and call.done(), for every call of the set cs
FailAndSignal(cs, e) ==
  /\ call' = [c \in Calls |-> IF c \in cs THEN [call[c] EXCEPT !.Error = e] ELSE call[c]]
  /\ signals' = [c \in Calls |-> IF c \in cs THEN signals[c] + 1 ELSE signals[c]]

\* Client.Go / Client.Call up to the registration in send: take sending, then
\* registerCall.  A rejected call is failed with ErrShutdown and signalled.
\* The calls are numbered in the order their tasks take sending.  Every call is
\* created by Client.Go on behalf of Client.Call; a direct caller of Go is a
\* caller whose select (CallCancel, CallRecv) never fires.
GoSend(c) ==
  /\ pc[c] = "new"
  /\ \A d \in Calls : d < c => pc[d] # "new"
  /\ sending = NoTask
  /\ IF registerCallRejects
       THEN /\ call' = [call EXCEPT ![c] = [@ EXCEPT !.Error = ErrShutdown]]
            /\ signals' = [signals EXCEPT ![c] = @ + 1]
            /\ pc' = [pc EXCEPT ![c] = "sent"]
            /\ UNCHANGED <<seq, pending, sending>>
       ELSE /\ call' = [call EXCEPT ![c] = [@ EXCEPT !.Seq = seq]]
            /\ pending' = registerCallPending(c)
            /\ seq' = registerCallNextSeq
            /\ sending' = c
            /\ pc' = [pc EXCEPT ![c] = "write"]
            /\ UNCHANGED signals
  /\ UNCHANGED <<clientVariant, codecType, closing, shutdown, inbound, delivered,
                 torn, connClosed, rpc, rcall,
                 rmode, lastClose, codecCloses>>
  /\ UNCHANGED notClientVars

\* Codec.Write(&client.header, call.Args) in send.  The codec encodes into a
\* buffer and ignores the error of Flush, so a write on a dead connection can
\* return nil with the request lost; an encode error of the body leaves the
\* header flushed, and the codec then closes the connection.  When Write
\* returns nil, send returns and releases sending (same step).
SendWrite(c) ==
  /\ pc[c] = "write"
  /\ \/ /\ ~connClosed
        /\ delivered' = delivered \cup {call[c].Seq}
        /\ pc' = [pc EXCEPT ![c] = "sent"]
        /\ sending' = NoTask
        /\ UNCHANGED <<torn, connClosed>>
     \/ /\ connClosed
        /\ pc' = [pc EXCEPT ![c] = "sent"]
        /\ sending' = NoTask
        /\ UNCHANGED <<delivered, torn, connClosed>>
     \/ /\ connClosed
        /\ connClosed' = TRUE
        /\ pc' = [pc EXCEPT ![c] = "wroteErr"]
        /\ UNCHANGED <<delivered, torn, sending>>
     \/ /\ torn' = IF connClosed THEN torn ELSE torn \cup {call[c].Seq}
        /\ pc' = [pc EXCEPT ![c] = "flushedErr"]
        /\ UNCHANGED <<delivered, connClosed, sending>>
  /\ UNCHANGED <<clientVariant, codecType, seq, pending, closing, shutdown,
                 call, signals, inbound, rpc, rcall,
                 rmode, lastClose, codecCloses>>
  /\ UNCHANGED notClientVars

\* The deferred c.Close() of Codec.Write after an encode error.
SendWriteClose(c) ==
  /\ pc[c] = "flushedErr"
  /\ connClosed' = TRUE
  /\ delivered' = {}
  /\ torn' = {}
  /\ pc' = [pc EXCEPT ![c] = "wroteErr"]
  /\ UNCHANGED <<clientVariant, codecType, seq, pending, closing, shutdown, sending,
                 call, signals, inbound, rpc, rcall, rmode, lastClose, codecCloses>>
  /\ UNCHANGED notClientVars

\* The end of send after a write error: removeCall and signal the call when it
\* was still pending; release sending.
SendFinish(c) ==
  /\ pc[c] = "wroteErr"
  /\ pending' = removeCallRest(call[c].Seq)
  /\ FailAndSignal({removeCall(call[c].Seq)} \ {NoCall}, WriteErr)
  /\ sending' = NoTask
  /\ pc' = [pc EXCEPT ![c] = "sent"]
  /\ UNCHANGED <<clientVariant, codecType, seq, closing, shutdown, inbound,
                 delivered, torn, connClosed, rpc, rcall, rmode, lastClose, codecCloses>>
  /\ UNCHANGED notClientVars

\* Client.Call, the ctx.Done() branch of the select: removeCall(call.Seq) and
\* return "rpc client: call failed".
CallCancel(c) ==
  /\ pc[c] = "sent"
  /\ pending' = removeCallRest(call[c].Seq)
  /\ pc' = [pc EXCEPT ![c] = "cancelled"]
  /\ UNCHANGED <<clientVariant, codecType, seq, closing, shutdown, sending, call,
                 signals, inbound, delivered, torn, connClosed,
                 rpc, rcall, rmode, lastClose, codecCloses>>
  /\ UNCHANGED notClientVars

\* Client.Call, the <-call.Done branch of the select: the caller takes the
\* signalled call and returns call.Error.
CallRecv(c) ==
  /\ pc[c] = "sent"
  /\ signals[c] >= 1
  /\ pc' = [pc EXCEPT ![c] = "returned"]
  /\ UNCHANGED <<clientVariant, codecType, seq, pending, closing, shutdown, sending,
                 call, signals, inbound, delivered, torn, connClosed,
                 rpc, rcall, rmode, lastClose, codecCloses>>
  /\ UNCHANGED notClientVars

\* ---- the reader task: Client.receive ----
\* A read of the connection succeeds on a frame that is there (a frame already
\* buffered by the decoder can still be decoded after the connection closed); it
\* fails once the connection is closed.
CanRead == inbound # << >>
ReadFails == connClosed

\* What receive does after removeCall when the header carries an Error.
\* client.go: ReadBody(nil), then call.done().  part_004: nothing of either.
ErrorReplyMode == IF clientVariant = "client.go" THEN "errDiscard" ELSE "skip"

\* One pass of the loop of receive up to the switch: cc.ReadHeader(&h)
\* (part_004 decodes the header with cc.ReadBody(&header)), then
\* call := client.removeCall(h.Seq) and the case taken.
RecvReadHeader ==
  /\ rpc = "readHeader"
  /\ \/ /\ CanRead
        /\ inbound' = Tail(inbound)
        /\ IF DecodesAsHeader(Head(inbound))
             THEN LET h == HeaderOf(Head(inbound))
                      c == removeCall(h.seq)
                  IN /\ pending' = removeCallRest(h.seq)
                     /\ IF c = NoCall
                          THEN rmode' = "discard" /\ rpc' = "readBody" /\ rcall' = NoCall /\ call' = call
                          ELSE IF h.err # ""
                            THEN /\ call' = [call EXCEPT ![c] = [@ EXCEPT !.Error = ServerErr]]
                                 /\ IF ErrorReplyMode = "skip"
                                      THEN rmode' = "none" /\ rpc' = "readHeader" /\ rcall' = NoCall
                                      ELSE rmode' = ErrorReplyMode /\ rpc' = "readBody" /\ rcall' = c
                            ELSE rmode' = "reply" /\ rpc' = "readBody" /\ rcall' = c /\ call' = call
             ELSE /\ rpc' = "terminate"
                  /\ UNCHANGED <<pending, call, rcall, rmode>>
     \/ /\ ReadFails
        /\ rpc' = "terminate"
        /\ UNCHANGED <<inbound, pending, call, rcall, rmode>>
  /\ UNCHANGED <<clientVariant, codecType, seq, closing, shutdown, sending,
                 pc, signals, delivered, torn, connClosed,
                 lastClose, codecCloses>>
  /\ UNCHANGED notClientVars

\* The outcome of cc.ReadBody in receive: ok says whether it returned nil,
\* f is the frame it consumed.
RecvBodyDone(ok, f) ==
  /\ rpc' = IF ok THEN "readHeader" ELSE "terminate"
  /\ rcall' = NoCall
  /\ rmode' = "none"
  /\ CASE rmode = "discard" -> UNCHANGED <<call, signals>>
       [] rmode = "errDiscard" ->
            /\ signals' = [signals EXCEPT ![rcall] = @ + 1]
            /\ call' = call
       [] rmode = "reply" ->
            /\ signals' = [signals EXCEPT ![rcall] = @ + 1]
            /\ call' = [call EXCEPT ![rcall] =
                          IF ok THEN [@ EXCEPT !.Reply = f.seq]
                                ELSE [@ EXCEPT !.Error = BodyErr]]

\* err = client.cc.ReadBody(nil) or ReadBody(call.Reply), then call.done().
RecvReadBody ==
  /\ rpc = "readBody"
  /\ \/ /\ CanRead
        /\ inbound' = Tail(inbound)
        /\ LET f == Head(inbound)
               ok == IF rmode = "reply" THEN DecodesAsReply(f) ELSE DiscardOK(f)
           IN RecvBodyDone(ok, f)
     \/ /\ ReadFails
        /\ inbound' = inbound
        /\ RecvBodyDone(FALSE, HdrFrame(0, ""))
  /\ UNCHANGED <<clientVariant, codecType, seq, pending, closing, shutdown, sending,
                 pc, delivered, torn, connClosed, lastClose, codecCloses>>
  /\ UNCHANGED notClientVars

\* client.terminateCalls(err): under sending and mu, set shutdown, fail and
\* signal every call of pending.  receive returns: nothing reads the
\* connection any more, so the frames on it and the answers still to come
\* are dropped.
RecvTerminate ==
  /\ rpc = "terminate"
  /\ sending = NoTask
  /\ shutdown' = TRUE
  /\ FailAndSignal(terminateCallsTargets, terminateCallsError(ReadErr))
  /\ rpc' = "exited"
  /\ inbound' = << >>
  /\ delivered' = {}
  /\ torn' = {}
  /\ UNCHANGED <<clientVariant, codecType, seq, pending, closing, sending, pc,
                 connClosed, rcall, rmode, lastClose, codecCloses>>
  /\ UNCHANGED notClientVars

\* ---- Client.Close ----
Close ==
  /\ IF CloseRejects
       THEN /\ lastClose' = ErrShutdown
            /\ UNCHANGED <<closing, connClosed, codecCloses, delivered, torn>>
       ELSE /\ closing' = TRUE
            /\ connClosed' = TRUE
            /\ delivered' = {}
            /\ torn' = {}
            /\ codecCloses' = codecCloses + 1
            /\ lastClose' = "cc.Close()"
  /\ UNCHANGED <<clientVariant, codecType, seq, pending, shutdown, sending, call,
                 pc, signals, inbound, rpc, rcall, rmode>>
  /\ UNCHANGED notClientVars

\* ---- the peer ----
\* The server answers a request it received: a reply (header, value), an error
\* reply (header with Error, placeholder body), or a reply whose body does not
\* decode into the caller's Reply.  A request whose header alone arrived can
\* only be answered with an error reply.
ReplyKinds == {"val", "empty", "bad"}

ServerReply(s, kind) ==
  /\ ~connClosed
  /\ rpc # "exited"
  /\ s \in (delivered \cup torn)
  /\ s \in torn => kind = "empty"
  /\ inbound' = inbound \o << HdrFrame(s, IF kind = "empty" THEN "E" ELSE ""),
                              BodyFrame(kind, s) >>
  /\ delivered' = delivered \ {s}
  /\ torn' = torn \ {s}
  /\ UNCHANGED <<clientVariant, codecType, seq, pending, closing, shutdown, sending,
                 call, pc, signals, connClosed, rpc,
                 rcall, rmode, lastClose, codecCloses>>
  /\ UNCHANGED notClientVars

\* The peer closes the connection, or the transport fails: the requests it
\* had not answered stay unanswered.
PeerClose ==
  /\ ~connClosed
  /\ connClosed' = TRUE
  /\ delivered' = {}
  /\ torn' = {}
  /\ UNCHANGED <<clientVariant, codecType, seq, pending, closing, shutdown, sending,
                 call, pc, signals, inbound, rpc, rcall, rmode,
                 lastClose, codecCloses>>
  /\ UNCHANGED notClientVars

NextClient ==
  \/ \E c \in Calls : GoSend(c)
  \/ \E c \in Calls : SendWrite(c)
  \/ \E c \in Calls : SendWriteClose(c)
  \/ \E c \in Calls : SendFinish(c)
  \/ \E c \in Calls : CallCancel(c)
  \/ \E c \in Calls : CallRecv(c)
  \/ RecvReadHeader
  \/ RecvReadBody
  \/ RecvTerminate
  \/ Close
  \/ \E s \in 1..MaxCalls, kind \in ReplyKinds : ServerReply(s, kind)
  \/ PeerClose

SpecClient == InitClient /\ [][NextClient]_vars

\* A client of src/client.go just constructed, on either codec.
InitClientGo == InitClient /\ clientVariant = "client.go"

\* src/client.go under a scheduler that runs every task that can take a
\* step: the reader and the task inside send (the sending mutex admits one
\* at a time).  Callers, Close, cancellation and the peer are free.
FairSpecClient ==
  /\ InitClientGo
  /\ [][NextClient]_vars
  /\ WF_vars(RecvReadHeader \/ RecvReadBody \/ RecvTerminate)
  /\ WF_vars(\E c \in Calls : SendWrite(c) \/ SendWriteClose(c) \/ SendFinish(c))

\* ------------------------------------------------- server connection steps
InitServer ==
  /\ ClientIdle
  /\ ServiceIdle
  /\ serviceMap = ServingMap
  /\ regpc = [t \in RegTasks |-> "idle"]
  /\ regSvc = [t \in RegTasks |-> NoService]
  /\ regResult = [t \in RegTasks |-> "none"]
  /\ regOrder = << >>
  /\ found = NotCalled
  /\ serverVariant \in ServerVariants
  /\ sCodec \in CodecTypes
  /\ reqIn = << >>
  /\ sentReqs = << >>
  /\ sEOF = FALSE
  /\ spc = "readHeader"
  /\ cur = 0
  /\ reqLog = << >>
  /\ ws = [t \in Tasks |-> "idle"]
  /\ out = << >>
  /\ wg = 0
  /\ sConnClosed = FALSE
  /\ DialIdle
  /\ ServeConnIdle
  /\ LocksIdle
  /\ CodecIdle
  /\ DoneIdle

\* The client writes one request: a header and its argument body.
ClientRequest(sm, ok) ==
  /\ Len(sentReqs) < MaxReqs
  /\ ~sEOF
  /\ sentReqs' = Append(sentReqs, [sm |-> sm, ok |-> ok])
  /\ reqIn' = reqIn \o <<ReqHdrFrame(Len(sentReqs) + 1, sm), ReqArgsFrame(Len(sentReqs) + 1, ok)>>
  /\ UNCHANGED <<serverVariant, sCodec, sEOF, spc, cur, reqLog, ws, out, wg, sConnClosed>>
  /\ UNCHANGED notServerVars

\* The client closes the connection.
ClientEOF ==
  /\ ~sEOF
  /\ sEOF' = TRUE
  /\ UNCHANGED <<serverVariant, sCodec, reqIn, sentReqs, spc, cur, reqLog, ws, out, wg, sConnClosed>>
  /\ UNCHANGED notServerVars

SrvCanRead == reqIn # << >>
SrvReadFails == sConnClosed \/ (sEOF /\ reqIn = << >>)

\* readRequest when findService fails: src/server.go returns the request
\* with the error, src/server/server.go returns nil with the error.
readRequestKeepsReq == serverVariant = "server.go"

NewReq(h, st) == [seq |-> h.seq, sm |-> h.sm, st |-> st, lost |-> FALSE, disp |-> FALSE]

\* readRequest up to findService: readRequestHeader, then the lookup.
SrvReadHeader ==
  /\ spc = "readHeader"
  /\ \/ /\ SrvCanRead
        /\ LET f == Head(reqIn)
               h == ReadHeaderOf(f)
               rid == Len(reqLog) + 1
           IN /\ reqIn' = Tail(reqIn)
              /\ IF ~ReadHeaderOK(f)
                   THEN /\ spc' = "wait"
                        /\ UNCHANGED <<cur, reqLog, ws>>
                 ELSE IF findService(h.sm).err # NilError
                   THEN IF readRequestKeepsReq
                          THEN /\ reqLog' = Append(reqLog, NewReq(h, "loopErr"))
                               /\ cur' = rid
                               /\ spc' = "sendErr"
                               /\ ws' = [ws EXCEPT ![LoopTask] = "want"]
                          ELSE /\ reqLog' = Append(reqLog, NewReq(h, "dropped"))
                               /\ spc' = "wait"
                               /\ UNCHANGED <<cur, ws>>
                 ELSE /\ reqLog' = Append(reqLog, NewReq(h, "readBody"))
                      /\ cur' = rid
                      /\ spc' = "readBody"
                      /\ UNCHANGED ws
     \/ /\ SrvReadFails
        /\ spc' = "wait"
        /\ UNCHANGED <<reqIn, cur, reqLog, ws>>
  /\ UNCHANGED <<serverVariant, sCodec, sentReqs, sEOF, out, wg, sConnClosed>>
  /\ UNCHANGED notServerVars

\* readRequest, the argument body; on success wg.Add(1) and go handleRequest.
SrvReadBody ==
  /\ spc = "readBody"
  /\ \/ /\ SrvCanRead
        /\ reqIn' = Tail(reqIn)
        /\ IF ReadBodyOK(Head(reqIn))
             THEN /\ reqLog' = [reqLog EXCEPT ![cur].st = "call", ![cur].disp = TRUE]
                  /\ wg' = wg + 1
                  /\ spc' = "readHeader"
                  /\ UNCHANGED ws
             ELSE /\ reqLog' = [reqLog EXCEPT ![cur].st = "loopErr"]
                  /\ spc' = "sendErr"
                  /\ ws' = [ws EXCEPT ![LoopTask] = "want"]
                  /\ UNCHANGED wg
     \/ /\ SrvReadFails
        /\ reqLog' = [reqLog EXCEPT ![cur].st = "loopErr"]
        /\ spc' = "sendErr"
        /\ ws' = [ws EXCEPT ![LoopTask] = "want"]
        /\ UNCHANGED <<reqIn, wg>>
  /\ UNCHANGED <<serverVariant, sCodec, sentReqs, sEOF, cur, out, sConnClosed>>
  /\ UNCHANGED notServerVars

\* handleRequest: the method call returns nil or an error.
HandlerCall(rid, fails) ==
  /\ rid \in 1..Len(reqLog)
  /\ spc # "crashed"
  /\ reqLog[rid].st = "call"
  /\ reqLog' = [reqLog EXCEPT ![rid].st = IF fails THEN "hErr" ELSE "hReply"]
  /\ ws' = [ws EXCEPT ![rid] = "want"]
  /\ UNCHANGED <<serverVariant, sCodec, reqIn, sentReqs, sEOF, spc, cur, out, wg, sConnClosed>>
  /\ UNCHANGED notServerVars

\* The request a task answers, and whether the reply carries an error.
ReqOf(t) == IF t = LoopTask THEN cur ELSE t
ReplyErr(t) == IF reqLog[ReqOf(t)].st \in {"loopErr", "hErr"} THEN "E" ELSE ""

\* handleRequest: the method panics inside svc.call.  Neither call nor
\* handleRequest nor ServeCodec recovers, so the panic leaves the handler's
\* goroutine and the Go runtime ends the process: every task stops and the
\* operating system closes the connection; a reply some task was writing
\* is lost.
HandlerPanic(rid) ==
  /\ rid \in 1..Len(reqLog)
  /\ spc # "crashed"
  /\ reqLog[rid].st = "call"
  /\ reqLog' = [r \in 1..Len(reqLog) |->
                  IF r = rid THEN [reqLog[r] EXCEPT !.st = "panicked"]
                  ELSE IF \E t \in Tasks : ws[t] \in {"locked", "hdr"} /\ ReqOf(t) = r
                    THEN [reqLog[r] EXCEPT !.lost = TRUE]
                  ELSE reqLog[r]]
  /\ spc' = "crashed"
  /\ ws' = [t \in Tasks |-> "idle"]
  /\ sConnClosed' = TRUE
  /\ UNCHANGED <<serverVariant, sCodec, reqIn, sentReqs, sEOF, cur, out, wg>>
  /\ UNCHANGED notServerVars

\* sendResponse: sending.Lock().
sendResponseCanLock_Always == TRUE
sendResponseCanLock == \A t \in Tasks : ws[t] \notin {"locked", "hdr"}

SendLock(t) ==
  /\ ws[t] = "want"
  /\ sendResponseCanLock
  /\ ws' = [ws EXCEPT ![t] = "locked"]
  /\ UNCHANGED <<serverVariant, sCodec, reqIn, sentReqs, sEOF, spc, cur, reqLog, out, wg, sConnClosed>>
  /\ UNCHANGED notServerVars

\* Codec.Write, the header: enc.Encode(h) into the buffered writer.
WriteHeader(t) ==
  /\ ws[t] = "locked"
  /\ ws' = [ws EXCEPT ![t] = "hdr"]
  /\ IF sConnClosed
       THEN /\ reqLog' = [reqLog EXCEPT ![ReqOf(t)].lost = TRUE]
            /\ UNCHANGED out
       ELSE /\ out' = Append(out, RepHdrFrame(ReqOf(t), reqLog[ReqOf(t)].seq, ReplyErr(t)))
            /\ UNCHANGED reqLog
  /\ UNCHANGED <<serverVariant, sCodec, reqIn, sentReqs, sEOF, spc, cur, wg, sConnClosed>>
  /\ UNCHANGED notServerVars

\* After sendResponse returns: the loop continues; handleRequest returns on
\* the error path and after the reply, running the deferred wg.Done().
handleRequestReturnsAfterError_Not == FALSE
handleRequestReturnsAfterError == TRUE

AfterSend(t, log) ==
  IF t = LoopTask
    THEN /\ reqLog' = [log EXCEPT ![cur].st = "done"]
         /\ spc' = "readHeader"
         /\ ws' = [ws EXCEPT ![t] = "idle"]
         /\ UNCHANGED wg
  ELSE IF log[t].st = "hErr" /\ ~handleRequestReturnsAfterError
    THEN /\ reqLog' = [log EXCEPT ![t].st = "hReply"]
         /\ ws' = [ws EXCEPT ![t] = "want"]
         /\ UNCHANGED <<spc, wg>>
  ELSE /\ reqLog' = [log EXCEPT ![t].st = "done"]
       /\ ws' = [ws EXCEPT ![t] = "idle"]
       /\ wg' = wg - 1
       /\ UNCHANGED spc

\* Codec.Write, the body and the flush, then sending.Unlock().  The body of
\* a method reply may fail to encode: Write then closes the connection.
WriteBody(t, encodes) ==
  /\ ws[t] = "hdr"
  /\ encodes \/ (reqLog[ReqOf(t)].st = "hReply" /\ ~sConnClosed)
  /\ IF sConnClosed
       THEN /\ AfterSend(t, [reqLog EXCEPT ![ReqOf(t)].lost = TRUE])
            /\ UNCHANGED <<out, sConnClosed>>
     ELSE IF encodes
       THEN /\ out' = Append(out, RepBodyFrame(ReqOf(t), reqLog[ReqOf(t)].seq))
            /\ AfterSend(t, reqLog)
            /\ UNCHANGED sConnClosed
     ELSE /\ sConnClosed' = TRUE
          /\ AfterSend(t, [reqLog EXCEPT ![ReqOf(t)].lost = TRUE])
          /\ UNCHANGED out
  /\ UNCHANGED <<serverVariant, sCodec, reqIn, sentReqs, sEOF, cur>>
  /\ UNCHANGED notServerVars

\* After the loop: wg.Wait(), then cc.Close().
wgWaitReturns_AtOnce == TRUE
wgWaitReturns == wg = 0

SrvWaitClose ==
  /\ spc = "wait"
  /\ wgWaitReturns
  /\ spc' = "closed"
  /\ sConnClosed' = TRUE
  /\ UNCHANGED <<serverVariant, sCodec, reqIn, sentReqs, sEOF, cur, reqLog, ws, out, wg>>
  /\ UNCHANGED notServerVars

NextServer ==
  \/ \E sm \in ServiceMethods, ok \in BOOLEAN : ClientRequest(sm, ok)
  \/ ClientEOF
  \/ SrvReadHeader
  \/ SrvReadBody
  \/ \E rid \in 1..MaxLog, fails \in BOOLEAN : HandlerCall(rid, fails)
  \/ \E rid \in 1..MaxLog : HandlerPanic(rid)
  \/ \E t \in Tasks : SendLock(t)
  \/ \E t \in Tasks : WriteHeader(t)
  \/ \E t \in Tasks, encodes \in BOOLEAN : WriteBody(t, encodes)
  \/ SrvWaitClose

SpecServer == InitServer /\ [][NextServer]_vars

\* A server connection on the gob codec, in either variant.
InitServerGob == InitServer /\ sCodec = "gob"

\* A step of a handler task: the method returns, or sendResponse goes on.
HandlerStep ==
  \/ \E rid \in 1..MaxLog, fails \in BOOLEAN : HandlerCall(rid, fails)
  \/ \E t \in Tasks \ {LoopTask} : SendLock(t) \/ WriteHeader(t)
  \/ \E t \in Tasks \ {LoopTask}, encodes \in BOOLEAN : WriteBody(t, encodes)

\* The server connection under the assumption that every handler task
\* terminates (the method returns and the write of its reply ends) and that
\* ServeCodec runs when it can, on the gob codec; the client and the read
\* loop are free.
FairSpecServer ==
  /\ InitServerGob
  /\ [][NextServer]_vars
  /\ WF_vars(HandlerStep)
  /\ WF_vars(SrvWaitClose)


\* ------------------------------------------------------------ service steps
InitService ==
  /\ svcRcvr \in Receivers
  /\ svcMethod = [n \in {} |-> 0]
  /\ numCalls = [n \in {} |-> 0]
  /\ svcBuilt = FALSE
  /\ inv = [t \in InvTasks |-> [pc |-> "idle", m |-> NoMethodName, res |-> "none"]]
  /\ ClientIdle
  /\ RegistryIdle
  /\ ServerIdle
  /\ DialIdle
  /\ ServeConnIdle
  /\ LocksIdle
  /\ CodecIdle
  /\ DoneIdle

\* NewService(rcvr): the method table is built and every numCalls is zero.
NewService ==
  /\ ~svcBuilt
  /\ svcMethod' = registerMethods(svcRcvr)
  /\ numCalls' = [n \in DOMAIN registerMethods(svcRcvr) |-> 0]
  /\ svcBuilt' = TRUE
  /\ UNCHANGED <<svcRcvr, inv>>
  /\ UNCHANGED notSvcVars

\* atomic.AddUint64(&m.numCalls, 1); a uint64 does not wrap within MaxInv.
atomicAddUint64_Store(v) == 1
atomicAddUint64(v) == v + 1

\* service.Call, first statement: the counter of m goes up by one.
CallCount(t, n) ==
  /\ svcBuilt
  /\ inv[t].pc = "idle"
  /\ n \in DOMAIN svcMethod
  /\ numCalls' = [numCalls EXCEPT ![n] = atomicAddUint64(numCalls[n])]
  /\ inv' = [inv EXCEPT ![t] = [pc |-> "called", m |-> n, res |-> "none"]]
  /\ UNCHANGED <<svcRcvr, svcMethod, svcBuilt>>
  /\ UNCHANGED notSvcVars

\* service.Call, the rest: f.Call runs the method; its one result is nil or
\* an error, which Call returns.
CallReturn(t, r) ==
  /\ inv[t].pc = "called"
  /\ inv' = [inv EXCEPT ![t] = [@ EXCEPT !.pc = "returned", !.res = r]]
  /\ UNCHANGED <<svcRcvr, svcMethod, numCalls, svcBuilt>>
  /\ UNCHANGED notSvcVars

NextService ==
  \/ NewService
  \/ \E t \in InvTasks, n \in {NameSum, NameAdd} : CallCount(t, n)
  \/ \E t \in InvTasks, r \in {"nil", "error"} : CallReturn(t, r)

SpecService == InitService /\ [][NextService]_vars

\* ------------------------------------------------------- dialTimeout steps
InitDial ==
  /\ dialVariant \in ClientVariants
  /\ nopts \in 1..2
  /\ connectTimeout \in 0..MaxTimeout
  /\ dpc = "parseOptions"
  /\ dconn = "none"
  /\ fpc = "none"
  /\ fresult = NoResult
  /\ elapsed = 0
  /\ dret = NoResult
  /\ ClientIdle
  /\ RegistryIdle
  /\ ServerIdle
  /\ ServiceIdle
  /\ ServeConnIdle
  /\ LocksIdle
  /\ CodecIdle
  /\ DoneIdle

\* parseOptions of src/client.go rejects more than one option; part_004
\* takes opts[0] and ignores the rest.
parseOptionsFails == dialVariant = "client.go" /\ nopts # 1

\* The deferred function: it closes conn when the named result err is set.
deferCloses_Never(err) == FALSE
deferCloses(err) == err # NilError

dialTimeoutReturn(res) ==
  /\ dret' = res
  /\ dpc' = "returned"
  /\ dconn' = IF dconn # "none" /\ deferCloses(res.err) THEN "closed" ELSE dconn

DialParseOptions ==
  /\ dpc = "parseOptions"
  /\ IF parseOptionsFails
       THEN /\ dret' = [client |-> FALSE, err |-> ErrOptions]
            /\ dpc' = "returned"
       ELSE /\ dpc' = "dial"
            /\ UNCHANGED dret
  /\ UNCHANGED <<dialVariant, nopts, connectTimeout, dconn, fpc, fresult, elapsed>>
  /\ UNCHANGED notDialVars

\* conn, err := net.DialTimeout(...); on success the defer is installed and
\* the goroutine that runs f(conn, opt) is started.
DialConn(ok) ==
  /\ dpc = "dial"
  /\ IF ok
       THEN /\ dconn' = "open"
            /\ fpc' = "running"
            /\ dpc' = "wait"
            /\ UNCHANGED dret
       ELSE /\ dret' = [client |-> FALSE, err |-> ErrDial]
            /\ dpc' = "returned"
            /\ UNCHANGED <<dconn, fpc>>
  /\ UNCHANGED <<dialVariant, nopts, connectTimeout, fresult, elapsed>>
  /\ UNCHANGED notDialVars

\* f(conn, opt), that is NewClient: no codec of that type, the Option could
\* not be written (NewClient closes conn itself), or a client.
CtorResults ==
  { [client |-> TRUE, err |-> NilError],
    [client |-> FALSE, err |-> ErrCodecType],
    [client |-> FALSE, err |-> ErrEncodeOption] }

CtorReturn(r) ==
  /\ fpc = "running"
  /\ fresult' = r
  /\ fpc' = "sending"
  /\ dconn' = IF r.err = ErrEncodeOption THEN "closed" ELSE dconn
  /\ UNCHANGED <<dialVariant, nopts, connectTimeout, dpc, elapsed, dret>>
  /\ UNCHANGED notDialVars

\* result := <-ch, alone when ConnectTimeout == 0 and inside the select
\* otherwise: the goroutine's send and this receive happen together.
DialRecvResult ==
  /\ dpc = "wait"
  /\ fpc = "sending"
  /\ fpc' = "done"
  /\ dialTimeoutReturn(fresult)
  /\ UNCHANGED <<dialVariant, nopts, connectTimeout, fresult, elapsed>>
  /\ UNCHANGED notDialVars

\* Time passes while dialTimeout waits in the select.
DialTick ==
  /\ dpc = "wait"
  /\ connectTimeout # 0
  /\ elapsed < connectTimeout
  /\ elapsed' = elapsed + 1
  /\ UNCHANGED <<dialVariant, nopts, connectTimeout, dpc, dconn, fpc, fresult, dret>>
  /\ UNCHANGED notDialVars

\* case <-time.After(opt.ConnectTimeout)
DialTimeout ==
  /\ dpc = "wait"
  /\ connectTimeout # 0
  /\ elapsed = connectTimeout
  /\ dialTimeoutReturn([client |-> FALSE, err |-> ErrConnectTimeout])
  /\ UNCHANGED <<dialVariant, nopts, connectTimeout, fpc, fresult, elapsed>>
  /\ UNCHANGED notDialVars

NextDial ==
  \/ DialParseOptions
  \/ \E ok \in BOOLEAN : DialConn(ok)
  \/ \E r \in CtorResults : CtorReturn(r)
  \/ DialRecvResult
  \/ DialTick
  \/ DialTimeout

SpecDial == InitDial /\ [][NextDial]_vars

\* -------------------------------------------------- Server.ServeConn steps
InitServeConn ==
  /\ connVariant \in ConnVariants
  /\ registered \in CodecRegistrations
  /\ optDecodes \in BOOLEAN
  /\ optMagic \in {MagicNumber, 0}
  /\ optCodec \in OptionCodecTypes
  /\ hpc = "ServeConn"
  /\ hsLog = "none"
  /\ hsReqs = 0
  /\ hsClosed = FALSE
  /\ ClientIdle
  /\ RegistryIdle
  /\ ServerIdle
  /\ ServiceIdle
  /\ DialIdle
  /\ LocksIdle
  /\ CodecIdle
  /\ DoneIdle

\* Only src/server.go looks at opt.MagicNumber, and it only logs.
magicMismatchReturns_Always == TRUE
magicMismatchReturns == FALSE

\* ServeConn up to its call of ServeCodec; every return runs the deferred
\* conn.Close().
ServeConn ==
  /\ hpc = "ServeConn"
  /\ IF ~optDecodes
       THEN /\ hsLog' = "options error"
            /\ hpc' = "returned"
            /\ hsClosed' = TRUE
       ELSE IF connVariant = "server.go" /\ optMagic # MagicNumber /\ magicMismatchReturns
       THEN /\ hsLog' = "invalid magic number"
            /\ hpc' = "returned"
            /\ hsClosed' = TRUE
       ELSE IF optCodec \notin registered
       THEN /\ hsLog' = "invalid codec type"
            /\ hpc' = "returned"
            /\ hsClosed' = TRUE
       ELSE /\ hsLog' = IF connVariant = "server.go" /\ optMagic # MagicNumber
                          THEN "invalid magic number" ELSE "none"
            /\ hpc' = "ServeCodec"
            /\ UNCHANGED hsClosed
  /\ UNCHANGED <<connVariant, registered, optDecodes, optMagic, optCodec, hsReqs>>
  /\ UNCHANGED notConnVars

\* ServeCodec reads one more request from the connection.
ServeCodecRead ==
  /\ hpc = "ServeCodec"
  /\ hsReqs < MaxReqs
  /\ hsReqs' = hsReqs + 1
  /\ UNCHANGED <<connVariant, registered, optDecodes, optMagic, optCodec, hpc, hsLog, hsClosed>>
  /\ UNCHANGED notConnVars

\* ServeCodec returns at the end of the stream and ServeConn's defer runs.
ServeCodecReturn ==
  /\ hpc = "ServeCodec"
  /\ hpc' = "served"
  /\ hsClosed' = TRUE
  /\ UNCHANGED <<connVariant, registered, optDecodes, optMagic, optCodec, hsLog, hsReqs>>
  /\ UNCHANGED notConnVars

NextServeConn ==
  \/ ServeConn
  \/ ServeCodecRead
  \/ ServeCodecReturn

SpecServeConn == InitServeConn /\ [][NextServeConn]_vars

\* -------------------------------------------------- the client's mutexes
InitLocks ==
  /\ LocksIdle
  /\ ClientIdle
  /\ RegistryIdle
  /\ ServerIdle
  /\ ServiceIdle
  /\ DialIdle
  /\ ServeConnIdle
  /\ CodecIdle
  /\ DoneIdle

\* A task enters one of the client's operations.  terminateCalls is run by
\* the reader alone, once.
LockBegin(t, op) ==
  /\ lop[t] = "none"
  /\ op = "terminateCalls" => \A u \in LockTasks : lop[u] # "terminateCalls"
  /\ lop' = [lop EXCEPT ![t] = op]
  /\ lpos' = [lpos EXCEPT ![t] = 1]
  /\ UNCHANGED <<sendingHeldBy, muHeldBy>>
  /\ UNCHANGED notLockVars

Running(t) == lop[t] \in LockOps /\ lpos[t] <= Len(LockSteps(lop[t]))
NextStep(t) == LockSteps(lop[t])[lpos[t]]

\* sync.Mutex.Lock: the task goes on when the mutex is free (a mutex held
\* by the task itself is not free either).
LockAcquire(t) ==
  /\ Running(t)
  /\ NextStep(t)[1] = "Lock"
  /\ IF NextStep(t)[2] = "sending"
       THEN sendingHeldBy = Free /\ sendingHeldBy' = t /\ UNCHANGED muHeldBy
       ELSE muHeldBy = Free /\ muHeldBy' = t /\ UNCHANGED sendingHeldBy
  /\ lpos' = [lpos EXCEPT ![t] = @ + 1]
  /\ UNCHANGED lop
  /\ UNCHANGED notLockVars

\* sync.Mutex.Unlock
LockRelease(t) ==
  /\ Running(t)
  /\ NextStep(t)[1] = "Unlock"
  /\ IF NextStep(t)[2] = "sending"
       THEN sendingHeldBy' = Free /\ UNCHANGED muHeldBy
       ELSE muHeldBy' = Free /\ UNCHANGED sendingHeldBy
  /\ lpos' = [lpos EXCEPT ![t] = @ + 1]
  /\ UNCHANGED lop
  /\ UNCHANGED notLockVars

\* The operation returns; the task may start another one.
LockEnd(t) ==
  /\ lop[t] \in LockOps
  /\ lpos[t] > Len(LockSteps(lop[t]))
  /\ lop' = [lop EXCEPT ![t] = IF lop[t] = "terminateCalls" THEN "exited" ELSE "none"]
  /\ lpos' = [lpos EXCEPT ![t] = 0]
  /\ UNCHANGED <<sendingHeldBy, muHeldBy>>
  /\ UNCHANGED notLockVars

NextLocks ==
  \/ \E t \in LockTasks, op \in LockOps : LockBegin(t, op)
  \/ \E t \in LockTasks : LockAcquire(t)
  \/ \E t \in LockTasks : LockRelease(t)
  \/ \E t \in LockTasks : LockEnd(t)

SpecLocks == InitLocks /\ [][NextLocks]_vars

\* ------------------------------------------------- call.done() and Client.Go
\* The caller made one buffered channel (cap(done) >= 1, or Go panics) that it
\* may pass to several calls of Go; a call given nil gets a channel of its own.
InitDone ==
  /\ chanOf = [c \in DoneCalls |-> "own"]
  /\ sharedCap \in 1..MaxSharedCap
  /\ sharedBuf = << >>
  /\ ownBuf = [c \in DoneCalls |-> 0]
  /\ dst = [c \in DoneCalls |-> "new"]
  /\ dby = [c \in DoneCalls |-> "none"]
  /\ dreader = "loop"
  /\ dlock = "free"
  /\ dshutdown = FALSE
  /\ ClientIdle
  /\ RegistryIdle
  /\ ServerIdle
  /\ ServiceIdle
  /\ DialIdle
  /\ ServeConnIdle
  /\ LocksIdle
  /\ CodecIdle

\* call.Done <- call can proceed: the channel has a free slot.
doneHasRoom(c) ==
  IF chanOf[c] = "own" THEN ownBuf[c] < DefaultDoneCap ELSE Len(sharedBuf) < sharedCap

\* A task is inside call.done() on behalf of the operation op.
InDone(op) == \E c \in DoneCalls : dst[c] = "indone" /\ dby[c] = op
ReaderBusy == InDone("receive") \/ InDone("terminateCalls")

\* Client.Go(serviceMethod, args, reply, done), then send: under sending,
\* registerCall and Write.  A rejected call and a call whose Write failed
\* (and that removeCall still found) go to call.done() inside send, under
\* sending; otherwise send returns with the call pending.
DoneGo(c, ch, outcome) ==
  /\ dst[c] = "new"
  /\ dlock = "free"
  /\ chanOf' = [chanOf EXCEPT ![c] = ch]
  /\ IF dshutdown \/ outcome = "write error"
       THEN /\ dst' = [dst EXCEPT ![c] = "indone"]
            /\ dby' = [dby EXCEPT ![c] = "send"]
            /\ dlock' = "send"
       ELSE /\ dst' = [dst EXCEPT ![c] = "pending"]
            /\ UNCHANGED <<dby, dlock>>
  /\ UNCHANGED <<sharedCap, sharedBuf, ownBuf, dreader, dshutdown>>
  /\ UNCHANGED notDoneVars

\* receive: a reply for the pending call c has been read; removeCall, set the
\* result, call.done().
DoneReceive(c) ==
  /\ dreader = "loop"
  /\ ~ReaderBusy
  /\ dst[c] = "pending"
  /\ dst' = [dst EXCEPT ![c] = "indone"]
  /\ dby' = [dby EXCEPT ![c] = "receive"]
  /\ UNCHANGED <<chanOf, sharedCap, sharedBuf, ownBuf, dreader, dlock, dshutdown>>
  /\ UNCHANGED notDoneVars

\* receive: a read failed, the loop ends.
DoneReadError ==
  /\ dreader = "loop"
  /\ ~ReaderBusy
  /\ dreader' = "terminate"
  /\ UNCHANGED <<chanOf, sharedCap, sharedBuf, ownBuf, dst, dby, dlock, dshutdown>>
  /\ UNCHANGED notDoneVars

\* terminateCalls: sending.Lock(), mu.Lock(), shutdown = true.
DoneTerminateLock ==
  /\ dreader = "terminate"
  /\ dlock = "free"
  /\ dlock' = "terminateCalls"
  /\ dshutdown' = TRUE
  /\ dreader' = "terminating"
  /\ UNCHANGED <<chanOf, sharedCap, sharedBuf, ownBuf, dst, dby>>
  /\ UNCHANGED notDoneVars

\* terminateCalls: the next call of the range over pending: call.done().
DoneTerminateNext(c) ==
  /\ dreader = "terminating"
  /\ ~ReaderBusy
  /\ dst[c] = "pending"
  /\ dst' = [dst EXCEPT ![c] = "indone"]
  /\ dby' = [dby EXCEPT ![c] = "terminateCalls"]
  /\ UNCHANGED <<chanOf, sharedCap, sharedBuf, ownBuf, dreader, dlock, dshutdown>>
  /\ UNCHANGED notDoneVars

\* terminateCalls: the range is over; the deferred unlocks; receive returns.
DoneTerminateEnd ==
  /\ dreader = "terminating"
  /\ ~ReaderBusy
  /\ \A c \in DoneCalls : dst[c] # "pending"
  /\ dlock' = "free"
  /\ dreader' = "exited"
  /\ UNCHANGED <<chanOf, sharedCap, sharedBuf, ownBuf, dst, dby, dshutdown>>
  /\ UNCHANGED notDoneVars

\* call.Done <- call completes; send then returns and unlocks sending.
DoneDeliver(c) ==
  /\ dst[c] = "indone"
  /\ doneHasRoom(c)
  /\ dst' = [dst EXCEPT ![c] = "signalled"]
  /\ IF chanOf[c] = "own"
       THEN ownBuf' = [ownBuf EXCEPT ![c] = @ + 1] /\ UNCHANGED sharedBuf
       ELSE sharedBuf' = Append(sharedBuf, c) /\ UNCHANGED ownBuf
  /\ dlock' = IF dby[c] = "send" THEN "free" ELSE dlock
  /\ UNCHANGED <<chanOf, sharedCap, dby, dreader, dshutdown>>
  /\ UNCHANGED notDoneVars

\* The caller receives from the channel it shares between its calls.
DoneCallerRecv ==
  /\ sharedBuf # << >>
  /\ sharedBuf' = Tail(sharedBuf)
  /\ UNCHANGED <<chanOf, sharedCap, ownBuf, dst, dby, dreader, dlock, dshutdown>>
  /\ UNCHANGED notDoneVars

NextDone ==
  \/ \E c \in DoneCalls, ch \in {"own", "shared"}, o \in {"sent", "write error"} : DoneGo(c, ch, o)
  \/ \E c \in DoneCalls : DoneReceive(c)
  \/ DoneReadError
  \/ DoneTerminateLock
  \/ \E c \in DoneCalls : DoneTerminateNext(c)
  \/ DoneTerminateEnd
  \/ \E c \in DoneCalls : DoneDeliver(c)
  \/ DoneCallerRecv

SpecDone == InitDone /\ [][NextDone]_vars

\* ------------------------------------------------------ Codec.Write steps
InitCodec ==
  /\ wcodec \in CodecTypes
  /\ wpc = "idle"
  /\ wn = 0
  /\ wbuf = << >>
  /\ wire = << >>
  /\ wclosed = FALSE
  /\ werr = NilError
  /\ wsteps = << >>
  /\ ClientIdle
  /\ RegistryIdle
  /\ ServerIdle
  /\ ServiceIdle
  /\ DialIdle
  /\ ServeConnIdle
  /\ LocksIdle
  /\ DoneIdle

\* Write(h, body) is called (by a task that holds the sending mutex).
WriteCall ==
  /\ wpc \in {"idle", "returned"}
  /\ wn < MaxWrites
  /\ wn' = wn + 1
  /\ wpc' = "encodeHeader"
  /\ werr' = NilError
  /\ wsteps' = << >>
  /\ UNCHANGED <<wcodec, wbuf, wire, wclosed>>
  /\ UNCHANGED notCodecVars

\* enc.Encode(h) into the buffer; on an error, return err.
WriteEncodeHeader(ok) ==
  /\ wpc = "encodeHeader"
  /\ wsteps' = Append(wsteps, "encode header")
  /\ IF ok
       THEN /\ wbuf' = Append(wbuf, <<"header", wn>>)
            /\ wpc' = "encodeBody"
            /\ UNCHANGED werr
       ELSE /\ werr' = "encoding header"
            /\ wpc' = "flush"
            /\ UNCHANGED wbuf
  /\ UNCHANGED <<wcodec, wn, wire, wclosed>>
  /\ UNCHANGED notCodecVars

\* enc.Encode(body) into the buffer; return err or nil.
WriteEncodeBody(ok) ==
  /\ wpc = "encodeBody"
  /\ wsteps' = Append(wsteps, "encode body")
  /\ wpc' = "flush"
  /\ IF ok
       THEN wbuf' = Append(wbuf, <<"body", wn>>) /\ UNCHANGED werr
       ELSE werr' = "encoding body" /\ UNCHANGED wbuf
  /\ UNCHANGED <<wcodec, wn, wire, wclosed>>
  /\ UNCHANGED notCodecVars

\* The deferred function tests the named result err.
writeDeferCloses_Never(err) == FALSE
writeDeferCloses(err) == err # NilError

\* The deferred function, first statement: _ = buf.Flush().  On an open
\* connection the buffered frames reach the wire; on a closed one the flush
\* fails, its error is dropped and so are the frames.
WriteFlush ==
  /\ wpc = "flush"
  /\ wsteps' = Append(wsteps, "flush")
  /\ wire' = IF wclosed THEN wire ELSE wire \o wbuf
  /\ wbuf' = << >>
  /\ wpc' = IF writeDeferCloses(werr) THEN "close" ELSE "returned"
  /\ UNCHANGED <<wcodec, wn, wclosed, werr>>
  /\ UNCHANGED notCodecVars

\* The deferred function, second statement: if err != nil, c.Close().
WriteClose ==
  /\ wpc = "close"
  /\ wsteps' = Append(wsteps, "close")
  /\ wclosed' = TRUE
  /\ wpc' = "returned"
  /\ UNCHANGED <<wcodec, wn, wbuf, wire, werr>>
  /\ UNCHANGED notCodecVars

NextCodec ==
  \/ WriteCall
  \/ \E ok \in BOOLEAN : WriteEncodeHeader(ok)
  \/ \E ok \in BOOLEAN : WriteEncodeBody(ok)
  \/ WriteFlush
  \/ WriteClose

SpecCodec == InitCodec /\ [][NextCodec]_vars

\* ------------------------------------------------------- client properties
InPending(c) == c \in Range(pending)

\* The call's lifetime is over: send has returned, the reader is not holding
\* the call, and the call is out of pending or the reader has terminated.
Ended(c) ==
  /\ pc[c] \in {"sent", "returned", "cancelled"}
  /\ rcall # c
  /\ ~InPending(c) \/ rpc = "exited"

\* C1: every call that has ended in a way other than the cancellation of its
\* caller's context (a reply, an error reply, a body decode failure, a write
\* failure, a rejection, terminateCalls) has had Done signalled exactly once,
\* in both client variants.  (A call whose caller's context was cancelled is
\* removed from pending by Call and, unless the reader was already holding it,
\* is never signalled: Cancelled_NeverSignalled below is reachable.)
C1_DoneExactlyOnce ==
  \A c \in Calls :
    /\ signals[c] <= 1
    /\ (Ended(c) /\ pc[c] # "cancelled") => signals[c] = 1

\* The two ways an ended call is left without a signal.
Unsignalled_Causes ==
  \A c \in Calls :
    (Ended(c) /\ signals[c] = 0) =>
       \/ pc[c] = "cancelled"
       \/ clientVariant = "part_004" /\ call[c].Error = ServerErr

Cancelled_NeverSignalled ==
  \E c \in Calls : pc[c] = "cancelled" /\ Ended(c) /\ signals[c] = 0 /\ rpc = "exited"

\* C2: a call that completed with Error == nil holds in Reply the body of the
\* reply frame whose header carried the call's Seq, and no Reply ever holds the
\* body of a reply addressed to another Seq, whatever the order of the replies.
C2_ReplyMatchesSeq ==
  \A c \in Calls :
    /\ call[c].Reply # 0 => call[c].Reply = call[c].Seq
    /\ (signals[c] >= 1 /\ call[c].Error = NilError) =>
          (call[c].Seq # 0 /\ call[c].Reply = call[c].Seq)

\* The reply to Seq 2 was decoded into its call while the reply to Seq 1,
\* submitted first, is still to come or to be read.
C2_Witness ==
  \E c, d \in Calls :
    /\ call[c].Seq = 2 /\ signals[c] = 1 /\ call[c].Error = NilError /\ call[c].Reply = 2
    /\ call[d].Seq = 1 /\ InPending(d) /\ signals[d] = 0
    /\ inbound # << >> /\ Head(inbound) = HdrFrame(1, "")

\* C3: the non-zero Seq values held by the calls are exactly 1..seq-1, each
\* held by one call, handed out in registration order; while the client is
\* open the k-th call submitted holds Seq k.
C3_SeqDense ==
  /\ {call[c].Seq : c \in Calls} \ {0} = 1..(seq - 1)
  /\ \A c, d \in Calls : (c < d /\ call[c].Seq # 0 /\ call[d].Seq # 0) => call[c].Seq < call[d].Seq
  /\ (~closing /\ ~shutdown) => \A c \in Calls : pc[c] # "new" => call[c].Seq = c

C3_Witness ==
  /\ ~closing /\ ~shutdown
  /\ \A c \in Calls : pc[c] = "sent" /\ call[c].Seq = c
  /\ seq = MaxCalls + 1

C5_CloseOnce ==
  /\ [](codecCloses <= 1 /\ (closing <=> codecCloses = 1)
          /\ (lastClose = ErrShutdown => closing))
  /\ [][closing => (codecCloses' = codecCloses
                     /\ (lastClose' # lastClose => lastClose' = ErrShutdown))]_vars
  /\ [][(~closing /\ lastClose' # lastClose) =>
          (closing' /\ connClosed' /\ codecCloses' = 1 /\ lastClose' = "cc.Close()")]_vars

\* Close() was called again after the first Close() and returned ErrShutdown.
C5_Witness == closing /\ codecCloses = 1 /\ lastClose = ErrShutdown

\* C11: a Call whose context ended is out of pending, and when the late
\* reply for its Seq arrives the reader, finding no pending entry, consumes
\* the reply's body, signals no call and goes back to reading headers.
C11_CancelledLateReply ==
  /\ [](\A c \in Calls : (pc[c] = "cancelled" /\ rcall # c) => ~InPending(c))
  /\ [][\A c \in Calls :
          ( /\ pc[c] = "cancelled"
            /\ rpc = "readBody" /\ rmode = "discard"
            /\ inbound # << >> /\ Head(inbound).seq = call[c].Seq
            /\ inbound' = Tail(inbound) )
          => (rpc' = "readHeader" /\ signals' = signals /\ call' = call)]_vars

\* The same on the gob codec, where decoding into nil discards the value.
C11_CancelledLateReply_Gob ==
  /\ [](\A c \in Calls : (pc[c] = "cancelled" /\ rcall # c) => ~InPending(c))
  /\ [][\A c \in Calls :
          ( /\ codecType = "gob"
            /\ pc[c] = "cancelled"
            /\ rpc = "readBody" /\ rmode = "discard"
            /\ inbound # << >> /\ Head(inbound).seq = call[c].Seq
            /\ inbound' = Tail(inbound) )
          => (rpc' = "readHeader" /\ signals' = signals /\ call' = call)]_vars

\* The reader takes from the connection a reply body that does not decode
\* into the Reply of call c.
BodyDecodeFails(c) ==
  /\ rpc = "readBody" /\ rmode = "reply" /\ rcall = c
  /\ inbound # << >> /\ ~DecodesAsReply(Head(inbound))
  /\ inbound' = Tail(inbound)

\* C18: when the body of a reply does not decode into call.Reply, that call
\* completes with the reading-body error and nothing else changes: the
\* reader goes back to reading headers, shutdown stays unset and the other
\* pending calls stay pending and unsignalled.
C18_BodyErrorFailsOnlyThatCall ==
  [][\A c \in Calls :
       BodyDecodeFails(c) =>
         /\ call'[c].Error = BodyErr /\ signals'[c] = signals[c] + 1
         /\ rpc' = "readHeader"
         /\ ~shutdown'
         /\ pending' = pending
         /\ \A d \in Calls \ {c} : call'[d] = call[d] /\ signals'[d] = signals[d]]_vars

\* What does hold: the call of the undecodable body gets the reading-body
\* error and one signal, and the step itself touches no other call.
C18_BodyErrorFailsThatCall ==
  [][\A c \in Calls :
       BodyDecodeFails(c) =>
         /\ call'[c].Error = BodyErr /\ signals'[c] = signals[c] + 1
         /\ rpc' = "terminate"
         /\ \A d \in Calls \ {c} : call'[d] = call[d] /\ signals'[d] = signals[d]]_vars

\* C19: once the reader is done with a reply whose header carries an Error
\* for a pending call, the call is out of pending, its Error is the server's
\* error and Done has been signalled once, so a Call waiting on it can
\* return.
C19_ErrorReplyCompletesCall ==
  \A c \in Calls :
    (call[c].Error = ServerErr /\ rcall # c) =>
      (~InPending(c) /\ signals[c] = 1)

C19_ErrorReplyCompletesCall_Go ==
  clientVariant = "client.go" =>
    \A c \in Calls :
      (call[c].Error = ServerErr /\ rcall # c) =>
        (~InPending(c) /\ signals[c] = 1)

\* In src/client.go a Call returned the server's error.
C19_Reached_Go ==
  \E c \in Calls : pc[c] = "returned" /\ call[c].Error = ServerErr /\ signals[c] = 1

\* C20: a failed header read takes the reader out of its loop into
\* terminateCalls; terminateCalls sets shutdown and completes every call
\* that is in pending at that moment with the read error, one signal each,
\* and no other call; once it has run, the reader has ended and it never
\* runs again.
C20_HeaderErrorTerminatesOnce ==
  /\ [][(rpc = "readHeader" /\ rpc' \notin {"readHeader", "readBody"}) =>
          (rpc' = "terminate" /\ pending' = pending /\ call' = call /\ signals' = signals)]_vars
  /\ [][(rpc = "terminate" /\ rpc' # "terminate") =>
          /\ rpc' = "exited"
          /\ shutdown'
          /\ \A c \in Calls :
               IF InPending(c)
                 THEN call'[c].Error = ReadErr /\ signals'[c] = signals[c] + 1
                 ELSE call'[c] = call[c] /\ signals'[c] = signals[c]]_vars
  /\ [][rpc = "exited" => (rpc' = "exited" /\ shutdown')]_vars

\* The first header read failed with both calls pending; terminateCalls has
\* run, both calls carry the read error and one signal, and one of them has
\* returned to its caller.
C20_Witness ==
  /\ rpc = "exited" /\ shutdown
  /\ \A c \in Calls : InPending(c) /\ call[c].Error = ReadErr /\ signals[c] = 1
  /\ \E c \in Calls : pc[c] = "returned"

\* C21: when Codec.Write failed in send, the end of send removes the call
\* from pending and signals it once with the write error if it was still
\* there, and neither changes nor signals it if the reader had already
\* removed it; either way the call is not in pending when send returns.
C21_SendWriteError ==
  [][\A c \in Calls :
       (pc[c] = "wroteErr" /\ pc'[c] = "sent") =>
         /\ c \notin Range(pending')
         /\ IF InPending(c)
              THEN call'[c].Error = WriteErr /\ signals'[c] = signals[c] + 1
              ELSE call'[c] = call[c] /\ signals'[c] = signals[c]
         /\ \A d \in Calls \ {c} : call'[d] = call[d] /\ signals'[d] = signals[d]]_vars

\* send has returned after a failed Write: the call carries the write
\* error, was signalled once and is out of pending.
C21_Witness ==
  \E c \in Calls :
    /\ pc[c] = "sent"
    /\ call[c].Error = WriteErr /\ signals[c] = 1
    /\ ~InPending(c)

\* The other case: Write flushed the header and failed on the body, the
\* server's error reply has been handled by the reader, and send is about
\* to run removeCall on a call that is no longer pending.
C21_WitnessAlreadyCompleted ==
  \E c \in Calls :
    /\ pc[c] = "wroteErr"
    /\ ~InPending(c) /\ signals[c] = 1 /\ call[c].Error = ServerErr

\* C22: a call that Go/send submits while closing or shutdown is set is
\* failed with ErrShutdown and signalled, and nothing else changes: its Seq
\* stays 0, pending and the seq counter are as before and nothing is
\* written to the connection.
C22_RejectedCallChangesNothing ==
  [][\A c \in Calls :
       (pc[c] = "new" /\ pc'[c] # "new" /\ (closing \/ shutdown)) =>
         /\ call'[c] = [call[c] EXCEPT !.Error = ErrShutdown]
         /\ call'[c].Seq = 0
         /\ signals'[c] = signals[c] + 1
         /\ pc'[c] = "sent"
         /\ pending' = pending /\ seq' = seq
         /\ delivered' = delivered /\ torn' = torn /\ sending' = sending
         /\ \A d \in Calls \ {c} : call'[d] = call[d] /\ signals'[d] = signals[d]]_vars

\* The first call was registered, then the client was closed or shut down,
\* and the second call was rejected: seq is still 2.
C22_Witness ==
  /\ closing \/ shutdown
  /\ call[1].Seq = 1
  /\ pc[2] = "sent" /\ call[2].Seq = 0 /\ call[2].Error = ErrShutdown /\ signals[2] = 1
  /\ seq = 2

\* The four places that call call.done(), as properties of one step.
SignalledByReader(c) == rpc = "readBody" /\ rcall = c /\ ~InPending(c)
SignalledBySend(c) == pc[c] = "wroteErr" /\ sending = c /\ InPending(c) /\ ~InPending(c)'
SignalledByReject(c) == pc[c] = "new" /\ registerCallRejects /\ call[c].Seq = 0
SignalledByTerminate(c) == rpc = "terminate" /\ rpc' = "exited" /\ InPending(c)
SignalCauses(c) ==
  (IF SignalledByReader(c) THEN 1 ELSE 0) + (IF SignalledBySend(c) THEN 1 ELSE 0)
  + (IF SignalledByReject(c) THEN 1 ELSE 0) + (IF SignalledByTerminate(c) THEN 1 ELSE 0)

\* C27: a step that signals a call on Done signals a call that has never
\* been signalled, once, and is exactly one of: the reader completing the
\* call it removed from pending, send removing the call after a failed
\* Write, send rejecting the registration, terminateCalls finding the call
\* in pending.
C27_SignalledAtMostOnce ==
  [][\A c \in Calls :
       (signals'[c] # signals[c]) =>
          (signals[c] = 0 /\ signals'[c] = 1 /\ SignalCauses(c) = 1)]_vars

\* One call was completed by send after a failed Write, another by
\* terminateCalls, with Close in between, each signalled once.
C27_Witness ==
  /\ closing /\ shutdown /\ rpc = "exited"
  /\ \E c, d \in Calls :
       /\ call[c].Error = WriteErr /\ signals[c] = 1
       /\ call[d].Error = ReadErr /\ signals[d] = 1

\* C28: every key k of pending satisfies 1 <= k < seq and the call stored
\* under it has Seq = k (so 0 is never a key); seq never decreases; closing
\* and shutdown, once true, stay true, and from then on pending gains no key.
C28_PendingKeysAndFlags ==
  /\ [](/\ 0 \notin DOMAIN pending
        /\ \A k \in DOMAIN pending : 1 <= k /\ k < seq /\ call[pending[k]].Seq = k)
  /\ [][/\ seq' >= seq
        /\ closing => closing'
        /\ shutdown => shutdown'
        /\ (closing \/ shutdown) => (DOMAIN pending' \subseteq DOMAIN pending)]_vars

\* Call 1 is pending under key 1 with seq = 2; Close has run and the next
\* call was rejected, leaving pending and seq as they were.
C28_Witness ==
  /\ closing /\ seq = 2
  /\ DOMAIN pending = {1} /\ call[pending[1]].Seq = 1
  /\ \E c \in Calls : pc[c] = "sent" /\ call[c].Seq = 0 /\ call[c].Error = ErrShutdown

\* ------------------------------------------------- server connection claims
RepliesTo(rid) == Cardinality({i \in 1..Len(out) : out[i].t = "hdr" /\ out[i].rid = rid})
Rids == 1..Len(reqLog)

\* C6: in src/server.go every request whose header the ServeCodec loop read
\* gets exactly one reply frame carrying its Seq, written by the loop (the
\* request could not be resolved or its body not decoded) or by its handler,
\* unless the connection went down before the reply was written: never two
\* reply frames, none once it is answered, and none left unanswered when
\* ServeCodec has closed the connection.
C6_OneReplyPerRequest ==
  serverVariant = "server.go" =>
    \A rid \in Rids :
      /\ RepliesTo(rid) <= 1
      /\ \A i \in 1..Len(out) : out[i].rid = rid => out[i].seq = reqLog[rid].seq
      /\ reqLog[rid].st = "done" => (RepliesTo(rid) = 1 \/ reqLog[rid].lost)
      /\ (reqLog[rid].st = "done" /\ RepliesTo(rid) = 1 /\ ~reqLog[rid].lost) =>
           \E i \in 1..Len(out) : out[i].t = "body" /\ out[i].rid = rid
      /\ spc = "closed" => reqLog[rid].st = "done"

\* A connection of src/server.go served to its end with one error reply of
\* the loop and one reply of a handler, each request answered once.
C6_Witness ==
  /\ serverVariant = "server.go"
  /\ spc = "closed"
  /\ \E r1, r2 \in Rids :
       /\ ~reqLog[r1].disp /\ reqLog[r1].st = "done" /\ RepliesTo(r1) = 1
       /\ reqLog[r2].disp /\ reqLog[r2].st = "done" /\ RepliesTo(r2) = 1
       /\ reqLog[r1].seq # reqLog[r2].seq

InWrite(t) == ws[t] \in {"locked", "hdr"}

\* C7: at most one task of a connection is inside Codec.Write, and on the
\* wire every reply header is followed at once by the body of the same reply
\* (or is the last frame, its writer still inside Write or its write failed).
C7_WritesSerialized ==
  /\ Cardinality({t \in Tasks : InWrite(t)}) <= 1
  /\ \A i \in 1..Len(out) :
       /\ out[i].t = "hdr" =>
            IF i < Len(out)
              THEN out[i + 1].t = "body" /\ out[i + 1].rid = out[i].rid
              ELSE \/ \E t \in Tasks : ws[t] = "hdr" /\ ReqOf(t) = out[i].rid
                   \/ reqLog[out[i].rid].lost
       /\ out[i].t = "body" =>
            i > 1 /\ out[i - 1].t = "hdr" /\ out[i - 1].rid = out[i].rid

\* A handler has written its header and not yet its body while the loop and
\* another handler wait for the mutex.
C7_Witness ==
  \E t1, t2 \in Tasks \ {LoopTask} :
    /\ t1 # t2
    /\ ws[t1] = "hdr" /\ ws[t2] = "want" /\ ws[LoopTask] = "want"
    /\ out # << >> /\ out[Len(out)].t = "hdr"

Unresolvable(sm) == findService(sm).err # NilError

\* C8: a request naming an unknown method, an unknown service or no dot at
\* all leaves the connection usable: when ServeCodec has closed a connection
\* on which no write failed, every resolvable request the client sent after
\* such a request was read, dispatched to a handler and answered.
C8_UnresolvedLeavesUsable ==
  (spc = "closed" /\ \A rid \in Rids : ~reqLog[rid].lost /\ \A j \in 1..Len(sentReqs) : sentReqs[j].ok) =>
    \A j, k \in 1..Len(sentReqs) :
      (j < k /\ Unresolvable(sentReqs[j].sm) /\ ~Unresolvable(sentReqs[k].sm)) =>
        \E rid \in Rids :
          /\ reqLog[rid].seq = k
          /\ reqLog[rid].disp
          /\ reqLog[rid].st = "done"
          /\ RepliesTo(rid) = 1

\* C16 (server): every frame the read loop takes from an open connection as
\* a header is the header of a request and every frame it takes as a body is
\* an argument body, so that header and body are consumed as a pair also
\* for a request that resolves to no service or method.
C16_ServerPairsHeaderBody ==
  [][(~sConnClosed /\ reqIn # << >> /\ reqIn' = Tail(reqIn)) =>
       (IF spc = "readHeader" THEN Head(reqIn).t = "hdr" ELSE Head(reqIn).t = "args")]_vars

\* The same with the variant of src/server/server.go, whose loop ends at a
\* request it cannot resolve.
C16_ServerPairsHeaderBody_Package ==
  [][(serverVariant = "server/server.go" /\ ~sConnClosed
        /\ reqIn # << >> /\ reqIn' = Tail(reqIn)) =>
       (IF spc = "readHeader" THEN Head(reqIn).t = "hdr" ELSE Head(reqIn).t = "args")]_vars

\* C16 (client): every frame the reader takes as a header is a reply header
\* and every frame it takes as a body is a reply body, also for a reply
\* that carries an Error or matches no pending call.
C16_ClientPairsHeaderBody ==
  [][(rpc \in {"readHeader", "readBody"} /\ inbound # << >> /\ inbound' = Tail(inbound)) =>
       (rpc = "readHeader" <=> Head(inbound).t = "hdr")]_vars

C16_ClientPairsHeaderBody_Go ==
  [][(clientVariant = "client.go" /\ rpc \in {"readHeader", "readBody"}
        /\ inbound # << >> /\ inbound' = Tail(inbound)) =>
       (rpc = "readHeader" <=> Head(inbound).t = "hdr")]_vars

\* C17: when the method of a request panics, the handler answers that
\* request with an error reply and nothing else is affected: the server
\* keeps running, the connection stays open and the handler goes on to send
\* the reply.
C17_PanicBecomesErrorReply ==
  \A rid \in Rids :
    reqLog[rid].st = "panicked" =>
      /\ spc # "crashed"
      /\ ~sConnClosed
      /\ ws[rid] = "want"

Handlers == {rid \in Rids : reqLog[rid].disp}

\* C23: once the read loop has exited, ServeCodec closes the codec only
\* when every handler it started has finished, no handler is started after
\* the exit, and, every handler terminating, ServeCodec terminates (the
\* codec is closed, unless a panic has ended the process first).
C23_ServeCodecWaitsThenCloses ==
  /\ [](spc = "closed" => (wg = 0 /\ \A rid \in Handlers : reqLog[rid].st = "done"))
  /\ [][(spc \in {"wait", "closed"}) =>
          /\ Len(reqLog') = Len(reqLog)
          /\ (\A rid \in Rids : reqLog'[rid].disp = reqLog[rid].disp)
          /\ wg' <= wg]_vars
  /\ (spc = "wait") ~> (spc \in {"closed", "crashed"})

\* The loop has exited and the codec is closed after two handlers finished.
C23_Witness ==
  /\ spc = "closed"
  /\ Cardinality(Handlers) >= 2
  /\ \A rid \in Handlers : reqLog[rid].st = "done"

\* The loop has exited while a handler is still inside its method.
C23_WitnessWaiting ==
  /\ spc = "wait" /\ wg > 0
  /\ \E rid \in Handlers : reqLog[rid].st = "call"

\* ------------------------------------------------------------ lock claims
WaitsFor(t, m) == Running(t) /\ NextStep(t) = Lock(m)
Holds(t, m) == IF m = "sending" THEN sendingHeldBy = t ELSE muHeldBy = t

HeldBy(m) == IF m = "sending" THEN sendingHeldBy ELSE muHeldBy
CanStep(t) == Running(t) /\ (NextStep(t)[1] = "Unlock" \/ HeldBy(NextStep(t)[2]) = Free)

C29_DoneNeverBlocks ==
  \A c \in DoneCalls : dst[c] = "indone" => doneHasRoom(c)

\* The part that holds: a call with a channel of its own (nil passed to Go,
\* or the channel Client.Call makes) never finds it full.
C29_OwnChannelHasRoom ==
  \A c \in DoneCalls : (dst[c] = "indone" /\ chanOf[c] = "own") => doneHasRoom(c)

\* terminateCalls is inside call.done() on a full shared channel, holding
\* sending, while another call of Go waits for sending.
C29_TerminateCallsStuck ==
  \E c, d \in DoneCalls :
    /\ dst[c] = "indone" /\ dby[c] = "terminateCalls" /\ ~doneHasRoom(c)
    /\ dlock = "terminateCalls"
    /\ dst[d] = "new"

\* ----------------------------------------------------------- codec claims
StepAt(x) == CHOOSE i \in 1..Len(wsteps) : wsteps[i] = x
Did(x) == \E i \in 1..Len(wsteps) : wsteps[i] = x

\* C25: a Write that has returned encoded the header first and the body
\* after it, flushed the buffer, and, when encoding the header or the body
\* failed, closed the connection after the flush and returned the error; it
\* did not encode the body when the header failed, and it closed nothing
\* when both were encoded.
C25_WriteFlushesAndCloses ==
  wpc = "returned" =>
    /\ Did("encode header") /\ StepAt("encode header") = 1
    /\ Did("encode body") => StepAt("encode body") = 2
    /\ Did("flush") /\ wbuf = << >>
    /\ werr # NilError => (Did("close") /\ StepAt("flush") < StepAt("close") /\ wclosed)
    /\ werr = NilError => (~Did("close") /\ Did("encode body"))
    /\ werr = "encoding header" => ~Did("encode body")

\* A Write whose body failed to encode has returned: the header went out
\* alone and the connection is closed.
C25_Witness ==
  /\ wpc = "returned"
  /\ werr = "encoding body"
  /\ wsteps = <<"encode header", "encode body", "flush", "close">>
  /\ wire # << >> /\ wire[Len(wire)] = <<"header", wn>>
  /\ wclosed

\* --------------------------------------------------------- ServeConn claims
EnteredServeCodec == hpc \in {"ServeCodec", "served"}

\* C15: ServeConn enters ServeCodec exactly when the Option decodes and its
\* CodecType is a registered codec, whatever its MagicNumber; otherwise no
\* request is read and the connection is closed.
C15_ServeConnEntersServeCodec ==
  hpc # "ServeConn" =>
    /\ EnteredServeCodec <=> (optDecodes /\ optCodec \in registered)
    /\ ~(optDecodes /\ optCodec \in registered) => (hsReqs = 0 /\ hsClosed /\ hpc = "returned")
    /\ hsReqs > 0 => EnteredServeCodec

\* A connection whose Option carries a wrong MagicNumber and a registered
\* codec is being served: a request has been read and it is still open.
C15_Witness ==
  /\ hpc = "ServeCodec"
  /\ optMagic # MagicNumber
  /\ hsReqs > 0
  /\ ~hsClosed

\* ------------------------------------------------------- dialTimeout claims
\* C14: once net.DialTimeout has given a connection, dialTimeout returns
\* the constructor's result when the result is delivered; it returns the
\* connect-timeout error only when ConnectTimeout > 0 has elapsed without a
\* delivery; with ConnectTimeout = 0 it returns nothing but the
\* constructor's result; and whenever it returns a constructor error or the
\* timeout error the dialled connection is closed.
C14_DialTimeoutOutcomes ==
  (dpc = "returned" /\ dconn # "none") =>
    /\ fpc = "done" => dret = fresult
    /\ dret.err = ErrConnectTimeout <=> fpc # "done"
    /\ dret.err = ErrConnectTimeout => (connectTimeout > 0 /\ elapsed = connectTimeout)
    /\ connectTimeout = 0 => fpc = "done"
    /\ dret.err # NilError => (~dret.client /\ dconn = "closed")

\* The timeout won although the constructor had produced a client: the
\* caller gets the timeout error and the connection is closed.
C14_Witness ==
  /\ dpc = "returned"
  /\ dret.err = ErrConnectTimeout
  /\ fpc = "sending" /\ fresult.client
  /\ dconn = "closed"

\* The constructor failed without closing the connection and its error was
\* delivered under ConnectTimeout = 0.
C14_WitnessCtorError ==
  /\ dpc = "returned"
  /\ connectTimeout = 0
  /\ dret.err = ErrCodecType
  /\ dconn = "closed"

\* C30: the task that ran the constructor is never left inside its send
\* ch <- clientResult{...} after dialTimeout has returned: while it waits to
\* deliver, dialTimeout is still waiting to receive.
C30_CtorTaskNotLeftBlocked ==
  fpc = "sending" => dpc = "wait"

\* A constructor task left in its send stays there: ch is unbuffered, it has
\* no other receiver, and no step of the program is enabled for it.
C30_LeftBlockedIsForever ==
  (fpc = "sending" /\ dpc = "returned") => ~ENABLED NextDial

\* Without a timeout (ConnectTimeout = 0) the constructor task always ends.
C30_NoTimeoutNoLeak ==
  (connectTimeout = 0 /\ dpc = "returned" /\ dconn # "none") => fpc = "done"

\* ----------------------------------------------------------- service claims
Started(n) == {t \in InvTasks : inv[t].pc # "idle" /\ inv[t].m = n}

\* C12: NumCalls of every method of the table is the number of invocations
\* of service.Call started on it, whether they are still running, returned
\* nil or returned an error; an invocation of one method leaves the counters
\* of the others as they were.
C12_NumCallsCountsStarted ==
  svcBuilt => \A n \in DOMAIN svcMethod : numCalls[n] = Cardinality(Started(n))

\* Two invocations of Sum, one returned an error and the other is still
\* inside the method; Add was never invoked.
C12_Witness ==
  /\ svcBuilt
  /\ {NameSum, NameAdd} \subseteq DOMAIN svcMethod
  /\ numCalls[NameSum] = 2 /\ numCalls[NameAdd] = 0
  /\ \E t, u \in InvTasks :
       /\ inv[t].pc = "returned" /\ inv[t].res = "error"
       /\ inv[u].pc = "called"

\* The parameters of a declared method besides its receiver.
Params(m) == SubSeq(m.in, 2, Len(m.in))
\* A type is built-in when it carries no package qualifier, exported when
\* its name begins with an upper-case letter.
ExportedOrBuiltin(t) == t.pkg = "" \/ (t.name # << >> /\ t.name[1] \in Upper)
Eligible(m) ==
  /\ m.name[1] \in Upper
  /\ Len(Params(m)) = 2
  /\ m.out = <<TypeError>>
  /\ \A i \in 1..2 : ExportedOrBuiltin(Params(m)[i])

\* C13: after NewService a method of the receiver is in the method table
\* exactly when it is exported, takes two parameters besides the receiver,
\* returns one value of type error and both parameter types are exported or
\* built-in; Foo of the test, with Sum and the unexported sum of the same
\* signature, gets a table of size 1 without sum.
C13_TableIsEligibleMethods ==
  svcBuilt =>
    /\ \A m \in svcRcvr : m.name \in DOMAIN svcMethod <=> Eligible(m)
    /\ DOMAIN svcMethod \subseteq {m.name : m \in svcRcvr}
    /\ \A m \in svcRcvr : Eligible(m) =>
         svcMethod[m.name] = [ArgType |-> Params(m)[1], ReplyType |-> Params(m)[2]]
    /\ svcRcvr = Foo =>
         (Cardinality(DOMAIN svcMethod) = 1 /\ NameLowerSum \notin DOMAIN svcMethod)

\* NewService has run on Foo: Sum is in the table, sum is not.
C13_Witness ==
  /\ svcBuilt
  /\ svcRcvr = Foo
  /\ DOMAIN svcMethod = {NameSum}

\* C26: every method in the table of a built service has a pointer type as
\* its ReplyType, so newReplyv does not panic for it.
C26_ReplyTypeIsPointer ==
  svcBuilt =>
    \A n \in DOMAIN svcMethod :
      IsPointer(svcMethod[n].ReplyType) /\ ~newReplyv(svcMethod[n]).panic

\* ---------------------------------------------------------- registry claims
\* C9: findService splits its argument at the last dot and returns exactly
\* one of four outcomes: ill-formed when there is no dot; can't find service
\* <prefix> when the part before the last dot is not registered; can't find
\* method <suffix> when the service has no such method; otherwise the
\* registered service, its method and a nil error.
C9_FindServiceOutcomes ==
  found # NotCalled =>
    LET sm == found.sm
        m == found.map
        r == found.res
    IN IF \A i \in 1..Len(sm) : sm[i] # Dot
         THEN r.err = IllFormed /\ r.mtype = NoMethod /\ r.svc = NoService
         ELSE \E d \in 1..Len(sm) :
                /\ sm[d] = Dot
                /\ \A i \in (d + 1)..Len(sm) : sm[i] # Dot
                /\ LET prefix == [i \in 1..(d - 1) |-> sm[i]]
                       suffix == [i \in 1..(Len(sm) - d) |-> sm[d + i]]
                   IN IF prefix \notin DOMAIN m
                        THEN r.err = CantFindService /\ r.text = prefix /\ r.mtype = NoMethod
                      ELSE IF suffix \notin m[prefix].method
                        THEN r.err = CantFindMethod /\ r.text = suffix /\ r.mtype = NoMethod
                      ELSE r.err = NilError /\ r.svc = m[prefix] /\ r.mtype = suffix

\* findService was called with a string of two dots whose part before the
\* last dot is not registered although the part before the first dot is.
C9_Witness ==
  /\ found # NotCalled
  /\ Cardinality({i \in 1..Len(found.sm) : found.sm[i] = Dot}) = 2
  /\ found.res.err = CantFindService
  /\ \E d \in 1..Len(found.sm) : found.sm[d] = Dot /\ SubSeq(found.sm, 1, d - 1) \in DOMAIN found.map

Stored(t) == regpc[t] = "done"
SameName(t, u) == regSvc[t].name = regSvc[u].name
Before(t, u) == \E i, j \in 1..Len(regOrder) : i < j /\ regOrder[i] = t /\ regOrder[j] = u

\* C10: of the Register calls for one service name the first succeeds and
\* every later one returns "service already defined" and leaves the map as
\* it was: the name maps to the service the first call stored.  Of calls
\* running concurrently exactly one succeeds.
C10_RegisterOnce ==
  /\ \A t \in RegTasks : Stored(t) =>
       /\ regSvc[t].name \in DOMAIN serviceMap
       /\ regResult[t] = NilError <=> \A u \in RegTasks : (Stored(u) /\ SameName(t, u) /\ u # t) => Before(t, u)
       /\ regResult[t] # NilError => regResult[t] = AlreadyDefined
       /\ regResult[t] = NilError => serviceMap[regSvc[t].name] = regSvc[t]
  /\ \A n \in DOMAIN serviceMap :
       Cardinality({t \in RegTasks : Stored(t) /\ regSvc[t].name = n /\ regResult[t] = NilError}) = 1

\* Two calls for the same name have returned: one got nil, the other the
\* error, and the name maps to the service of the one that got nil.
C10_Witness ==
  \E t, u \in RegTasks :
    /\ t # u /\ Stored(t) /\ Stored(u) /\ SameName(t, u)
    /\ regResult[t] = NilError /\ regResult[u] = AlreadyDefined
    /\ serviceMap[regSvc[u].name].rcvr = t

====
